---------------------------- MODULE Spec2Model ----------------------------
(***************************************************************************)
(* Model of the catalog-forge retrieval engine.                            *)
(*                                                                         *)
(*   Spec       downloadBatch (services/fileProcessor.ts): the bounded     *)
(*              worker pool, its queue, results, counters, progress        *)
(*              callback and the cancellation signal.                      *)
(*   FetchSpec  smartFetch (services/fileProcessor.ts): the ordered        *)
(*              fallback over four request strategies; FetchLiveSpec adds  *)
(*              that every request and body read settles.                  *)
(*   RunSpec    the group loop of a downloader component (WebDownloader,   *)
(*              DriveDownloader): naming, merging, summaries, the catch    *)
(*              block.                                                     *)
(*   ArchiveSpec  createFinalArchive: the sort and the members written.    *)
(*   CrawlSpec  fetchFolderContents (services/googleDrive.ts, both         *)
(*              versions in the file): the recursive crawl.                *)
(*                                                                         *)
(* JavaScript runs one task at a time: the code between two awaits is one  *)
(* atomic step.  The steps of the model are therefore the call, the        *)
(* settling of an awaited promise (an event of the environment), the       *)
(* continuation after an await, and the firing of the AbortSignal.         *)
(***************************************************************************)
EXTENDS Integers, Sequences, FiniteSets, TLC

\* ------------------------------------------------------------------ bounds
MaxN == 3          \* longest job list explored
MaxConc == 4       \* largest concurrency argument explored
MaxGroups == 2     \* most groups (sheet rows) of a run
MaxUrls == 3       \* most references or listed files of a group
MaxPages == 3      \* most pages of a folder listing
MaxStem == 3       \* longest stem of a file name
MaxFiles == 3      \* longest file list handed to createFinalArchive

\* ------------------------------------------------------------- batch state
VARIABLES
    bpc,           \* "idle" | "running" | "returned" | "rejected": the promise of downloadBatch
    total,         \* items.length
    concurrency,   \* the concurrency argument
    queue,         \* pending tasks, by index (1-based)
    results,       \* results of resolved jobs, in push order (a result is its job's index)
    failedCount,
    done,
    progressLog,   \* the calls of onProgress, <<done, total>> each
    aborted,       \* signal.aborted
    worker,        \* worker[w] = [pc |-> "awaiting" | "exited" | "threw", task |-> index or 0]
    outcome,       \* outcome[j]: "queued" | "pending" | "resolved" | "Error" | "AbortError"
    ret,           \* the value downloadBatch resolved with
    abortPhase,    \* history: bpc when the signal fired ("none" before it fires)
    resultsAtAbort,\* history: results when the signal fired
    queuedAtAbort  \* history: queue.length when the signal fired

batchVars == <<bpc, total, concurrency, queue, results, failedCount, done, progressLog,
               aborted, worker, outcome, ret, abortPhase, resultsAtAbort, queuedAtAbort>>

\* ------------------------------------------------------------- fetch state
VARIABLES
    fpc,           \* "idle" | "fetching" | "reading" | "returned" | "threw": the promise of smartFetch
    engineIdx,     \* position in `engines` of the strategy being attempted (0 before the call)
    attempts,      \* the strategies fetch() was called for, in call order
    attemptLog,    \* how each finished attempt ended
    fetchAborted,  \* signal.aborted
    fret,          \* what smartFetch returned or threw
    abortedDuring, \* history: number of the attempt in flight when the signal fired (0: none)
    res,           \* `res`: the response of the attempt whose body is being read
    delivered      \* history: what the network delivered to each finished attempt

fetchVars == <<fpc, engineIdx, attempts, attemptLog, fetchAborted, fret, abortedDuring,
               res, delivered>>

\* --------------------------------------------------------------- run state
\* One run of a downloader component: processBatch of WebDownloader,
\* processJob of PostimgDownloader, processProductionBatch of
\* DriveDownloader, or handleSheetData of the earlier Drive component
\* (unnamed/part_009).
VARIABLES
    variant,       \* "web" | "postimg" | "drive" | "sheet": the component
    items,         \* the groups: [folderName, n: references or listed files, link]
    keyMissing,    \* DRIVE_API_KEY is not set
    rpc,           \* "idle" | "head" | "listing" | "batch" | "after" | "done" | "threw"
    gi,            \* position in `items` of the group being processed (0 before the loop)
    rqueue,        \* the group's batch: tasks not started, by position in the group
    inflight,      \* the group's batch: producer calls started and not settled
    bresults,      \* the group's batch: results, in completion order
    bfailed,       \* the group's batch: failedCount
    counters,      \* subFolderSequence: name prefix -> last sequence number given
    allFiles,
    summaries,
    shown,         \* the argument of setResults, NoResults while results is null
    fatalAt,       \* history: the first group whose processing threw a configuration error (0: none)
    runAborted,    \* signal.aborted of the run's AbortController
    refNull,       \* abortControllerRef.current === null
    abortedAt,     \* history: gi when the signal fired
    filesAtAbort,  \* history: the assets retrieved when the signal fired
    blocked        \* history: the groups whose root listing failed inside the crawl

runVars == <<variant, items, keyMissing, rpc, gi, rqueue, inflight, bresults, bfailed,
             counters, allFiles, summaries, shown, fatalAt, runAborted, refNull, abortedAt,
             filesAtAbort, blocked>>

\* ----------------------------------------------------------- archive state
VARIABLES
    zpc,           \* "idle" | "generating" | "done": the promise of createFinalArchive
    zfiles,        \* the `files` argument, in push order
    zreport,       \* summaries.length > 0
    sortedFiles,
    members        \* the entries of the JSZip object, in the order they were created

archiveVars == <<zpc, zfiles, zreport, sortedFiles, members>>

\* ------------------------------------------------------------- crawl state
\* One call of fetchFolderContents (services/googleDrive.ts).
VARIABLES
    cversion,      \* 1 | 2: which of the two fetchFolderContents of googleDrive.ts runs
    ckeyMissing,   \* DRIVE_API_KEY is not set
    tree,          \* the remote folders: container id -> its children, in listing order
    cstate,        \* per container, its crawl(): "none" | "listing" | "joining" | "resolved" | "rejected"
    cerr,          \* per container, the message its crawl() rejected with
    cfiles,        \* `files`
    cfolders,      \* `folders`: the registry, as pairs <<id, name>>
    cret,          \* the promise of fetchFolderContents
    requests,      \* history: per container, the listings requested
    rootFirst,     \* history: how the listing of the root ended ("" before it ends)
    listingLog     \* history: per container, how its listing ended ("" before it ends)

crawlVars == <<cversion, ckeyMissing, tree, cstate, cerr, cfiles, cfolders, cret, requests,
               rootFirst, listingLog>>

\* One call of fetchWithRetry (googleDrive.ts in its two versions, and the
\* version of unnamed/part_012).
VARIABLES
    qver,          \* 1 | 2: googleDrive.ts first / second version; 3: part_012
    qkeyMissing,   \* DRIVE_API_KEY is empty
    qpc,           \* "idle" | "direct" | "waiting" | "failover" | "returned" | "threw"
    qi,            \* the loop variable i
    qlog,          \* history: the requests answered and the waits begun, in order
    qret           \* the response returned or the error thrown

retryVars == <<qver, qkeyMissing, qpc, qi, qlog, qret>>

\* One call of crawl(id, name) up to the classification of the children:
\* fetchAllInFolder page by page.
VARIABLES
    lpages,        \* the pages the API holds for the container
    lpc,           \* "idle" | "requesting" | "classified" | "failed"
    lk,            \* the pages requested so far
    lall,          \* allFiles of fetchAllInFolder
    lfiles,        \* the children crawl has pushed to `files`
    lsubs,         \* the children crawl has started a sub-crawl for
    lerr           \* the error fetchAllInFolder threw

listVars == <<lpages, lpc, lk, lall, lfiles, lsubs, lerr>>

\* The WebDownloader component over several runs of processBatch.
VARIABLES
    isProcessing,  \* the state isProcessing
    hasInput,      \* linksText or pendingItems is not empty
    ctrlRef,       \* abortControllerRef.current: 0 for null, else the run that created it
    wruns,         \* per run: pc, its items (URLs per group), position, files, what it read
    wresults,      \* the state results
    wstats         \* the state stats

webVars == <<isProcessing, hasInput, ctrlRef, wruns, wresults, wstats>>

\* The categorizer on one file of the selected folder.
VARIABLES
    kver,          \* 1: unnamed/part_003 (extractSkuPrefix); 2: AssetCategorizer.tsx
    kname,         \* file.name, as a sequence of characters
    kpc,           \* "pending" | "skipped" | "pushed"
    kfolder        \* the folder of the pushed file

catVars == <<kver, kname, kpc, kfolder>>

extraVars == <<retryVars, listVars, webVars, catVars>>

vars == <<batchVars, fetchVars, runVars, archiveVars, crawlVars, extraVars>>

\* The variables an operation of one component leaves alone.
nonBatchVars == <<fetchVars, runVars, archiveVars, crawlVars, extraVars>>
nonFetchVars == <<batchVars, runVars, archiveVars, crawlVars, extraVars>>
nonRunVars == <<batchVars, fetchVars, archiveVars, crawlVars, extraVars>>
nonArchiveVars == <<batchVars, fetchVars, runVars, crawlVars, extraVars>>
nonCrawlVars == <<batchVars, fetchVars, runVars, archiveVars, extraVars>>
coreVars == <<batchVars, fetchVars, runVars, archiveVars, crawlVars>>
nonRetryVars == <<coreVars, listVars, webVars, catVars>>
nonListVars == <<coreVars, retryVars, webVars, catVars>>
nonWebVars == <<coreVars, retryVars, listVars, catVars>>
nonCatVars == <<coreVars, retryVars, listVars, webVars>>

Min(a, b) == IF a < b THEN a ELSE b

Range(s) == {s[i] : i \in 1..Len(s)}

NoRet == [results |-> <<>>, failed |-> -1]

\* Rejection reasons a producer may use.
Errors == {"Error", "AbortError"}

\* -------------------------------------------------------- batch operations

\* Mutant: one worker too many.
WorkerCountOffByOne(c, n) == Min(c + 1, n)

\* Array(Math.min(concurrency, items.length)): the number of workers.
WorkerCount(c, n) == Min(c, n)

\* Mutant: the abort test is missing.
ShouldStopNever(ab) == FALSE

\* `if (signal?.aborted) break;`
ShouldStop(ab) == ab

\* Mutants: no catch clause; a catch that rethrows an AbortError.
CaughtNone(e) == FALSE
CaughtUnlessAbort(e) == e # "AbortError"

\* `catch (e) { failedCount++; }` catches every rejection.
Caught(e) == TRUE

\* Mutant: the failure is swallowed without being counted.
RecordFailureSkipped(f) == f

\* `failedCount++`
RecordFailure(f) == f + 1

\* Mutant: the result is not kept.
PushResultDropped(rs, r) == rs

\* `results.push(res)`
PushResult(rs, r) == Append(rs, r)

\* Mutant: done is not incremented.
NextDoneStale(d) == d

\* `done++`
NextDone(d) == d + 1

\* `onProgress?.(done, total)`
OnProgress(log, d, t) == Append(log, <<d, t>>)

\* Mutant: the task is read from the head of the queue but not removed.
LoopHeadNoShift(st, ab) ==
    IF Len(st.queue) > 0 /\ ~ShouldStop(ab)
    THEN [queue   |-> st.queue,
          outcome |-> [st.outcome EXCEPT ![Head(st.queue)] = "pending"],
          w       |-> [pc |-> "awaiting", task |-> Head(st.queue)]]
    ELSE [queue   |-> st.queue,
          outcome |-> st.outcome,
          w       |-> [pc |-> "exited", task |-> 0]]

\* One pass over the head of the worker loop: `while (queue.length > 0)`,
\* the abort test, `queue.shift()` and the call of downloadFn up to its await.
\* (`if (!task) break` cannot fire: the queue holds objects and is non-empty.)
\* st = [queue, outcome]; the result adds the worker's new state.
LoopHead(st, ab) ==
    IF Len(st.queue) > 0 /\ ~ShouldStop(ab)
    THEN [queue   |-> Tail(st.queue),
          outcome |-> [st.outcome EXCEPT ![Head(st.queue)] = "pending"],
          w       |-> [pc |-> "awaiting", task |-> Head(st.queue)]]
    ELSE [queue   |-> st.queue,
          outcome |-> st.outcome,
          w       |-> [pc |-> "exited", task |-> 0]]

\* `.map(async () => {...})`: the workers start one after the other, each
\* running synchronously up to its first await.
RECURSIVE Launch(_, _, _, _)
Launch(w, W, st, ab) ==
    IF w > W THEN st
    ELSE LET r == LoopHead(st, ab)
         IN  Launch(w + 1, W,
                    [queue |-> r.queue, outcome |-> r.outcome,
                     worker |-> Append(st.worker, r.w)], ab)

BatchInit ==
    /\ bpc = "idle"
    /\ total \in 0..MaxN
    /\ concurrency \in 1..MaxConc
    /\ queue = <<>>
    /\ results = <<>>
    /\ failedCount = 0
    /\ done = 0
    /\ progressLog = <<>>
    /\ aborted = FALSE
    /\ worker = <<>>
    /\ outcome = [j \in 1..total |-> "queued"]
    /\ ret = NoRet
    /\ abortPhase = "none"
    /\ resultsAtAbort = <<>>
    /\ queuedAtAbort = 0

\* The call of downloadBatch up to `await Promise.all(workers)`.
DownloadBatch ==
    /\ bpc = "idle"
    /\ LET st0 == [queue |-> [i \in 1..total |-> i], outcome |-> outcome, worker |-> <<>>]
           st  == Launch(1, WorkerCount(concurrency, total), st0, aborted)
       IN  /\ queue' = st.queue
           /\ outcome' = st.outcome
           /\ worker' = st.worker
    /\ bpc' = "running"
    /\ results' = <<>>
    /\ failedCount' = 0
    /\ done' = 0
    /\ UNCHANGED <<total, concurrency, progressLog, aborted, ret,
                   abortPhase, resultsAtAbort, queuedAtAbort>>
    /\ UNCHANGED nonBatchVars

\* The promise returned by downloadFn for job j settles.
Settle(j, o) ==
    /\ bpc \in {"running", "rejected"}
    /\ outcome[j] = "pending"
    /\ outcome' = [outcome EXCEPT ![j] = o]
    /\ UNCHANGED <<bpc, total, concurrency, queue, results, failedCount, done, progressLog,
                   aborted, worker, ret, abortPhase, resultsAtAbort, queuedAtAbort>>
    /\ UNCHANGED nonBatchVars

\* The continuation of worker w after `await downloadFn(...)`: try/catch/finally,
\* then the head of the loop again.
Resume(w) ==
    /\ bpc \in {"running", "rejected"}
    /\ w \in 1..Len(worker)
    /\ worker[w].pc = "awaiting"
    /\ outcome[worker[w].task] # "pending"
    /\ LET j      == worker[w].task
           o      == outcome[j]
           ok     == o = "resolved"
           thrown == ~ok /\ ~Caught(o)
           d      == NextDone(done)
           r      == LoopHead([queue |-> queue, outcome |-> outcome], aborted)
       IN  /\ results' = IF ok THEN PushResult(results, j) ELSE results
           /\ failedCount' = IF ~ok /\ Caught(o) THEN RecordFailure(failedCount)
                             ELSE failedCount
           /\ done' = d
           /\ progressLog' = OnProgress(progressLog, d, total)
           /\ IF thrown
              THEN /\ worker' = [worker EXCEPT ![w] = [pc |-> "threw", task |-> 0]]
                   /\ UNCHANGED <<queue, outcome>>
              ELSE /\ worker' = [worker EXCEPT ![w] = r.w]
                   /\ queue' = r.queue
                   /\ outcome' = r.outcome
    /\ UNCHANGED <<bpc, total, concurrency, aborted, ret,
                   abortPhase, resultsAtAbort, queuedAtAbort>>
    /\ UNCHANGED nonBatchVars

\* `await Promise.all(workers); return { results, failed: failedCount }`.
\* Promise.all rejects as soon as one worker's promise rejects.
Return ==
    /\ bpc = "running"
    /\ IF \E w \in 1..Len(worker) : worker[w].pc = "threw"
       THEN /\ bpc' = "rejected"
            /\ ret' = ret
       ELSE /\ \A w \in 1..Len(worker) : worker[w].pc = "exited"
            /\ bpc' = "returned"
            /\ ret' = [results |-> results, failed |-> failedCount]
    /\ UNCHANGED <<total, concurrency, queue, results, failedCount, done, progressLog,
                   aborted, worker, outcome, abortPhase, resultsAtAbort, queuedAtAbort>>
    /\ UNCHANGED nonBatchVars

\* No continuation is scheduled: every worker still awaiting waits for a
\* pending producer call, and the batch does not wait to return.
Quiescent ==
    /\ \A w \in 1..Len(worker) :
          worker[w].pc = "awaiting" => outcome[worker[w].task] = "pending"
    /\ bpc = "running" => \E w \in 1..Len(worker) : worker[w].pc = "awaiting"

\* The caller's AbortController fires: signal.aborted becomes true.  abort()
\* is called from an event handler, a task of its own, which the event loop
\* runs only when no continuation is scheduled.
Abort ==
    /\ bpc \in {"idle", "running"}
    /\ Quiescent
    /\ ~aborted
    /\ aborted' = TRUE
    /\ abortPhase' = bpc
    /\ resultsAtAbort' = results
    /\ queuedAtAbort' = Len(queue)
    /\ UNCHANGED <<bpc, total, concurrency, queue, results, failedCount, done, progressLog,
                   worker, outcome, ret>>
    /\ UNCHANGED nonBatchVars

\* -------------------------------------------------------- fetch operations

\* Mutant: the direct request is tried first.
EnginesDirectFirst == <<"direct", "wsrv", "corsproxy", "allorigins">>

\* `engines`: wsrv.nl (CDN rewrite to jpg), corsproxy.io (CORS relay),
\* api.allorigins.win/raw (raw passthrough), the target itself.
Engines == <<"wsrv", "corsproxy", "allorigins", "direct">>

SizeThreshold == 100

\* Blobs a response body may yield: sizes around the threshold, content types.
BlobSizes == {0, SizeThreshold, SizeThreshold + 1}
BlobTypes == {"image/jpeg", "text/html", ""}
Blobs == [size : BlobSizes, type : BlobTypes]

\* Mutant: the content type is not looked at.
IsHtmlNever(t) == FALSE

\* Mutant: a body of exactly the threshold size passes.
AcceptsAtThreshold(b) == b.size >= SizeThreshold /\ b.type \notin {"text/html"}

\* `blob.type.includes('html')`
IsHtml(t) == t \in {"text/html", "application/xhtml+xml"}

\* `blob.size > 100 && !blob.type.includes('html')`
Accepts(b) == b.size > SizeThreshold /\ ~IsHtml(b.type)

\* Mutant: an AbortError is swallowed like any other error.
RethrownNever(e) == FALSE

\* `if (e.name === 'AbortError') throw e;`
Rethrown(e) == e = "AbortError"

NoFret == [kind |-> "none"]
NoRes == [kind |-> "none"]

\* Mutant: the status of the response is not looked at.
ResOkAlways(r) == TRUE

\* `if (res.ok)`
ResOk(r) == r.ok

\* What `await fetch(engineUrl, { signal })` may settle with: once the signal
\* is aborted the request rejects with an AbortError; otherwise it rejects
\* with a network error or resolves with a response.
FetchOutcomes(ab) ==
    IF ab THEN {[kind |-> "reject", name |-> "AbortError"]}
    ELSE {[kind |-> "reject", name |-> "TypeError"]}
         \cup {[kind |-> "response", ok |-> b] : b \in BOOLEAN}

\* What `await res.blob()` may settle with.
BlobOutcomes(ab) ==
    IF ab THEN {[kind |-> "reject", name |-> "AbortError"]}
    ELSE {[kind |-> "reject", name |-> "TypeError"]}
         \cup {[kind |-> "blob", blob |-> b] : b \in Blobs}

FetchIdle ==
    /\ fpc = "idle"
    /\ engineIdx = 0
    /\ attempts = <<>>
    /\ attemptLog = <<>>
    /\ fetchAborted = FALSE
    /\ fret = NoFret
    /\ abortedDuring = 0
    /\ res = NoRes
    /\ delivered = <<>>

\* The call of smartFetch up to the first `await fetch(...)`.
SmartFetch ==
    /\ fpc = "idle"
    /\ fpc' = "fetching"
    /\ engineIdx' = 1
    /\ attempts' = <<Engines[1]>>
    /\ UNCHANGED <<attemptLog, fetchAborted, fret, abortedDuring, res, delivered>>
    /\ UNCHANGED nonFetchVars

\* The attempt ended without a return, how == how it ended: the next pass of
\* `for (const engineUrl of engines)`, or the throw after the loop.
NextEngine(how) ==
    /\ attemptLog' = Append(attemptLog, how)
    /\ IF engineIdx < Len(Engines)
       THEN /\ engineIdx' = engineIdx + 1
            /\ attempts' = Append(attempts, Engines[engineIdx + 1])
            /\ fpc' = "fetching"
            /\ fret' = fret
       ELSE /\ fpc' = "threw"
            /\ fret' = [kind |-> "error", name |-> "Error",
                        message |-> "Target blocked or unreachable."]
            /\ UNCHANGED <<engineIdx, attempts>>

\* `catch (e: any) { if (e.name === 'AbortError') throw e; }`
Catch(e) ==
    IF Rethrown(e)
    THEN /\ fpc' = "threw"
         /\ fret' = [kind |-> "error", name |-> e, message |-> "aborted"]
         /\ attemptLog' = Append(attemptLog, "abort")
         /\ UNCHANGED <<engineIdx, attempts>>
    ELSE NextEngine("threw")

\* `await fetch(engineUrl, { signal })` settles with o, and the code up to the
\* next await runs.
FetchSettles(o) ==
    /\ fpc = "fetching"
    /\ o \in FetchOutcomes(fetchAborted)
    /\ IF o.kind = "reject" THEN Catch(o.name) /\ res' = NoRes
       ELSE IF ResOk(o)
            THEN /\ fpc' = "reading"
                 /\ res' = o
                 /\ UNCHANGED <<engineIdx, attempts, attemptLog, fret>>
            ELSE NextEngine("status") /\ res' = NoRes
    /\ delivered' = IF fpc' = "reading" THEN delivered ELSE Append(delivered, o)
    /\ UNCHANGED <<fetchAborted, abortedDuring>>
    /\ UNCHANGED nonFetchVars

\* `await res.blob()` settles with o, and the code up to the next await runs.
BlobSettles(o) ==
    /\ fpc = "reading"
    /\ o \in BlobOutcomes(fetchAborted)
    /\ IF o.kind = "reject" THEN Catch(o.name)
       ELSE IF Accepts(o.blob)
            THEN /\ fpc' = "returned"
                 /\ fret' = [kind |-> "blob", blob |-> o.blob]
                 /\ attemptLog' = Append(attemptLog, "accepted")
                 /\ UNCHANGED <<engineIdx, attempts>>
            ELSE NextEngine("refused")
    /\ res' = NoRes
    /\ delivered' = Append(delivered, IF o.kind = "blob"
                                      THEN [kind |-> "blob", ok |-> res.ok, blob |-> o.blob]
                                      ELSE o)
    /\ UNCHANGED <<fetchAborted, abortedDuring>>
    /\ UNCHANGED nonFetchVars

\* The caller's AbortController fires while smartFetch runs or before its call.
FetchAbort ==
    /\ fpc \in {"idle", "fetching", "reading"}
    /\ ~fetchAborted
    /\ fetchAborted' = TRUE
    /\ abortedDuring' = engineIdx
    /\ UNCHANGED <<fpc, engineIdx, attempts, attemptLog, fret, res, delivered>>
    /\ UNCHANGED nonFetchVars

\* ----------------------------------------------------------- run operations

\* Folder names of the sheet's rows, and the display name of a subfolder.
GroupNames == {"SKU1", "SKU 2"}
SubFolderName == "front view"

\* `.replace(/\s+/g, '_')` on the names above.
Underscored(s) ==
    CASE s = "SKU 2" -> "SKU_2"
      [] s = "front view" -> "front_view"
      [] OTHER -> s

\* `item.folderName.trim().replace(/[^a-zA-Z0-9-_]/g, '_') || "Unknown_SKU"`
\* on the names above.
SafeSkuName(s) ==
    CASE s = "" -> "Unknown_SKU"
      [] s = "SKU 2" -> "SKU_2"
      [] OTHER -> s

\* The original names of a group's assets, by position in the group's list
\* of references (the listing, for a Drive folder): <stem>_<num>.png.
OriginalNames ==
    <<[stem |-> "b", num |-> 2], [stem |-> "a", num |-> 1], [stem |-> "a", num |-> 10]>>

OrigName(i) ==
    IF i <= Len(OriginalNames) THEN OriginalNames[i] ELSE [stem |-> "c", num |-> i]

\* The served content type of the assets and the extension in their URLs.
BlobType == "image/png"
UrlExt == "png"

\* getExtension: the blob's type through mimeMap, else the URL's extension
\* if it is an image extension, else jpg.
GetExtension(type, urlExt) ==
    CASE type = "image/jpeg" -> "jpg"
      [] type = "image/png" -> "png"
      [] type = "image/gif" -> "gif"
      [] type = "image/webp" -> "webp"
      [] type = "image/bmp" -> "bmp"
      [] OTHER -> IF urlExt \in {"jpg", "jpeg", "png", "gif", "webp", "bmp"}
                  THEN urlExt ELSE "jpg"

\* The listed file at position i lies in the subfolder (df.parents[0] is
\* the subfolder's id), the others directly in the root folder.
InSubfolder(i) == i % 3 = 0

\* The concurrency arguments of the components.
WebConcurrency == 16
DriveConcurrency == 10
SheetConcurrency == 12
PostimgConcurrency == 8

Concurrency(v) ==
    CASE v = "web" -> WebConcurrency
      [] v = "drive" -> DriveConcurrency
      [] v = "postimg" -> PostimgConcurrency
      [] OTHER -> SheetConcurrency

\* The rootName handleSheetData's processDriveFolder gives every folder.
SheetRootName == "Drive_Root"

\* The name prefixes subFolderSequence (folderCounters) can be indexed with.
Prefixes == {Underscored(s) : s \in GroupNames \cup {SubFolderName, SheetRootName}}

NoCounters == [p \in Prefixes |-> 0]

\* WebDownloader's producer: the ProcessedFile of reference i of `item`.
\* `src` stands for sourceUrl: the group and the position of the reference.
WebFile(item, g, i) ==
    [originalName |-> OrigName(i),
     newName |-> [prefix |-> Underscored(item.folderName), index |-> i,
                  ext |-> GetExtension(BlobType, UrlExt)],
     folder |-> <<item.folderName>>,
     src |-> <<g, i>>]

\* `folders.get(parentId) || safeSkuName`, then `.replace(/\s+/g, '_')`.
SafeFolderName(item, i) ==
    Underscored(IF InSubfolder(i) THEN SubFolderName ELSE SafeSkuName(item.folderName))

\* DriveDownloader's producer after `await downloadDriveFile`: the sequence
\* number is the folder's counter at that moment, plus one.
DriveFile(item, g, i, ctr) ==
    [originalName |-> OrigName(i),
     newName |-> [prefix |-> SafeFolderName(item, i), index |-> ctr[SafeFolderName(item, i)] + 1,
                  ext |-> GetExtension(BlobType, UrlExt)],
     folder |-> IF InSubfolder(i)
                THEN <<SafeSkuName(item.folderName), SafeFolderName(item, i)>>
                ELSE <<SafeSkuName(item.folderName)>>,
     src |-> <<g, i>>]

\* `folders.get(parentId) || 'Main Folder'` in processDriveFolder.
SheetFolderName(i) == IF InSubfolder(i) THEN SubFolderName ELSE SheetRootName

\* processDriveFolder's producer after `await downloadDriveFile`.
SheetFile(item, g, i, ctr) ==
    [originalName |-> OrigName(i),
     newName |-> [prefix |-> Underscored(SheetFolderName(i)),
                  index |-> ctr[Underscored(SheetFolderName(i))] + 1,
                  ext |-> GetExtension(BlobType, UrlExt)],
     folder |-> <<SheetFolderName(i)>>,
     src |-> <<g, i>>]

\* processJob's producer: `${item.folderName}_${index + 1}.${ext}`.
PostimgFile(item, g, i) ==
    [originalName |-> OrigName(i),
     newName |-> [prefix |-> item.folderName, index |-> i,
                  ext |-> GetExtension(BlobType, UrlExt)],
     folder |-> <<item.folderName>>,
     src |-> <<g, i>>]

\* The file the producer of component v returns for task i of group g.
ProducedFile(v, item, g, i, ctr) ==
    CASE v = "web" -> WebFile(item, g, i)
      [] v = "drive" -> DriveFile(item, g, i, ctr)
      [] v = "postimg" -> PostimgFile(item, g, i)
      [] OTHER -> SheetFile(item, g, i, ctr)

\* The counter the producer of component v increments for task i.
CounterKey(v, item, i) ==
    IF v = "drive" THEN SafeFolderName(item, i) ELSE Underscored(SheetFolderName(i))

\* `subFolderSequence[safeFolderName] = (subFolderSequence[safeFolderName] || 0) + 1`
Bump(ctr, p) == [ctr EXCEPT ![p] = @ + 1]

\* The status of a group's summary after its batch.
WebStatus(found, failed) == IF found > 0 THEN "Success" ELSE "Failed"

DriveStatus(found, failed) ==
    IF found > 0 THEN (IF failed > 0 THEN "Partial" ELSE "Success") ELSE "Failed"

\* processJob compares the files found with the links resolved.
PostimgStatus(found, n) ==
    IF found > 0 THEN (IF found = n THEN "Success" ELSE "Partial") ELSE "Failed"

Status(v, found, failed, n) ==
    CASE v = "web" -> WebStatus(found, failed)
      [] v = "postimg" -> PostimgStatus(found, n)
      [] OTHER -> DriveStatus(found, failed)

\* The notes of a group's summary after its batch.
Notes(v, found, failed) ==
    IF v \in {"web", "postimg"} THEN "captured."
    ELSE IF failed > 0 THEN "images failed." ELSE "Full sync verified."

\* The notes of the summary of a group with nothing to download.
EmptyNotes(v) == IF v = "postimg" THEN "Zero links resolved." ELSE "No images found."

\* Mutant: the group loop has no abort test.
GroupStopNever(ab) == FALSE

\* `if (abortControllerRef.current?.signal.aborted) break;` at the head of
\* the group loop.
GroupStop(ab) == ab

\* Mutant: downloadBatch resolves without waiting for its workers.
BatchDoneEarly(inf) == TRUE

\* `await Promise.all(workers)` has resolved: no producer call is pending.
BatchDone(inf) == inf = {}

\* Mutant: the summary is pushed twice.
PushSummaryTwice(ss, sm) == Append(Append(ss, sm), sm)

\* `summaries.push({...})`
PushSummary(ss, sm) == Append(ss, sm)

\* How a producer call can end: WebDownloader hands the signal to
\* smartFetch, whose request rejects once the signal has fired; the Drive
\* producers call downloadDriveFile without it.
ProducerOutcomes(v, ab) == IF v = "web" /\ ab THEN {FALSE} ELSE BOOLEAN

\* Whether the run calls setResults at its end.
Surfaced(v, files) == v \in {"web", "postimg"} \/ Len(files) > 0

\* Error messages, and String.prototype.includes on them.
InvalidLinkMsg == "Invalid Link Format."
KeyMissingMsg ==
    "System Config Error: API_KEY is missing. Add it to Netlify Environment Variables and REDEPLOY."
KeyMissingMsg2 == "System Config Error: API_KEY is missing in environment."
KeyInvalidMsg ==
    "Google API: API key not valid. Please pass a valid API key. (Verify \"Google Drive API\" is ENABLED in Cloud Console)"
KeyInvalidMsg2 == "Google API: API key not valid. Please pass a valid API key."
UnreachableMsg == "Drive API unreachable. Check internet connection and API Key status."
ForbiddenMsg ==
    "Drive API: 403 Forbidden. Check if folder is public (\"Anyone with link\") and API Key is valid."

Includes(msg, marker) ==
    /\ marker = "API_KEY"
    /\ msg \in {KeyMissingMsg, KeyMissingMsg2}

\* The marker processProductionBatch looks for before it leaves the loop.
HaltMarker == "API_RESTRICTION"

NoResults == [files |-> <<>>, summaries |-> <<>>, set |-> FALSE]

\* The groups a component can be given: a sheet row with at least one
\* reference (Web), a row with the links its galleries resolve to
\* (Postimg), a folder link that is valid or not with the images its crawl
\* lists (Drive).
GroupInputs(v) ==
    IF v = "web"
    THEN [folderName : GroupNames, n : 1..MaxUrls, link : {"valid"}]
    ELSE IF v = "postimg"
    THEN [folderName : GroupNames, n : 0..MaxUrls, link : {"valid"}]
    ELSE [folderName : GroupNames, n : 0..MaxUrls, link : {"valid"}]
         \cup [folderName : GroupNames, n : {0}, link : {"invalid"}]

RunIdle ==
    /\ rpc = "idle"
    /\ gi = 0
    /\ rqueue = <<>>
    /\ inflight = {}
    /\ bresults = <<>>
    /\ bfailed = 0
    /\ counters = NoCounters
    /\ allFiles = <<>>
    /\ summaries = <<>>
    /\ shown = NoResults
    /\ fatalAt = 0
    /\ runAborted = FALSE
    /\ refNull = TRUE
    /\ abortedAt = 0
    /\ filesAtAbort = <<>>
    /\ blocked = {}

\* No run: the component holds no items.
RunNone ==
    /\ variant = "web"
    /\ items = <<>>
    /\ keyMissing = FALSE
    /\ RunIdle

\* The component with its items loaded, before the run is started.
RunInit ==
    /\ variant \in {"web", "postimg", "drive", "sheet"}
    /\ \E k \in 1..MaxGroups : items \in [1..k -> GroupInputs(variant)]
    /\ keyMissing \in (IF variant \in {"web", "postimg"} THEN {FALSE} ELSE BOOLEAN)
    /\ RunIdle

\* processBatch / processJob / processProductionBatch / handleSheetData up
\* to the head of the group loop: `abortControllerRef.current = new
\* AbortController()` (processJob has no controller).
ProcessBatch ==
    /\ rpc = "idle"
    /\ Len(items) > 0
    /\ rpc' = "head"
    /\ allFiles' = <<>>
    /\ summaries' = <<>>
    /\ shown' = NoResults
    /\ runAborted' = FALSE
    /\ refNull' = (variant = "postimg")
    /\ UNCHANGED <<variant, items, keyMissing, gi, rqueue, inflight, bresults, bfailed,
                   counters, fatalAt, abortedAt, filesAtAbort, blocked>>
    /\ UNCHANGED nonRunVars

\* The call of downloadBatch for a group of n tasks: its workers take the
\* first min(concurrency, n) tasks and call the producer for each, or leave
\* at once when the signal has fired.
StartBatch(n) ==
    /\ IF ShouldStop(runAborted)
       THEN /\ inflight' = {}
            /\ rqueue' = [k \in 1..n |-> k]
       ELSE /\ inflight' = 1..WorkerCount(Concurrency(variant), n)
            /\ rqueue' = [k \in 1..(n - WorkerCount(Concurrency(variant), n))
                            |-> WorkerCount(Concurrency(variant), n) + k]
    /\ bresults' = <<>>
    /\ bfailed' = 0
    /\ counters' = NoCounters
    /\ rpc' = "batch"

\* The catch block of processProductionBatch: a Failed summary, and the
\* loop is left if the message carries the halt marker.
CatchGroup(g, msg) ==
    /\ summaries' = PushSummary(summaries, [styleName |-> items[g].folderName,
                                            status |-> "Failed",
                                            filesFound |-> 0, notes |-> msg])
    /\ rpc' = IF Includes(msg, HaltMarker) THEN "after" ELSE "head"
    /\ fatalAt' = IF fatalAt = 0 THEN g ELSE fatalAt

\* processDriveFolder returns [] (no id in the link, or its catch block):
\* handleSheetData goes on with the next link.
SkipGroup(g, failed) ==
    /\ rpc' = "head"
    /\ fatalAt' = IF failed /\ fatalAt = 0 THEN g ELSE fatalAt
    /\ UNCHANGED summaries

\* One pass through the head of the group loop, up to its first await.
\* handleSheetData reads `abortControllerRef.current.signal` there: a
\* TypeError once handleReset has set the reference to null.
GroupHead ==
    /\ rpc = "head"
    /\ gi < Len(items)
    /\ IF variant = "sheet" /\ refNull
       THEN /\ rpc' = "threw"
            /\ UNCHANGED <<gi, rqueue, inflight, bresults, bfailed, counters, summaries,
                           fatalAt>>
       ELSE IF GroupStop(runAborted)
       THEN /\ rpc' = "after"
            /\ UNCHANGED <<gi, rqueue, inflight, bresults, bfailed, counters, summaries,
                           fatalAt>>
       ELSE /\ gi' = gi + 1
            /\ IF variant = "web"
               THEN /\ StartBatch(items[gi + 1].n)
                    /\ UNCHANGED <<summaries, fatalAt>>
               ELSE IF items[gi + 1].link = "invalid"
               THEN /\ IF variant = "drive"
                       THEN CatchGroup(gi + 1, InvalidLinkMsg)
                       ELSE SkipGroup(gi + 1, TRUE)
                    /\ UNCHANGED <<rqueue, inflight, bresults, bfailed, counters>>
               ELSE /\ rpc' = "listing"
                    /\ UNCHANGED <<rqueue, inflight, bresults, bfailed, counters, summaries,
                                   fatalAt>>
    /\ UNCHANGED <<variant, items, keyMissing, allFiles, shown, runAborted, refNull,
                   abortedAt, filesAtAbort, blocked>>
    /\ UNCHANGED nonRunVars

\* fetchFolderContents settles: it rejects when the key is missing, and
\* resolves otherwise with the images of the folder, or with none when the
\* listing of the folder itself failed inside the crawl (rootBlocked).
\* In processJob: the links of the row are resolved.
ListingSettles(rootBlocked) ==
    /\ rpc = "listing"
    /\ rootBlocked => (~keyMissing /\ variant \in {"drive", "sheet"})
    /\ blocked' = IF rootBlocked THEN blocked \cup {gi} ELSE blocked
    /\ IF keyMissing
       THEN /\ IF variant = "drive"
               THEN CatchGroup(gi, KeyMissingMsg)
               ELSE SkipGroup(gi, TRUE)
            /\ UNCHANGED <<rqueue, inflight, bresults, bfailed, counters>>
       ELSE IF variant \in {"drive", "postimg"} /\ (rootBlocked \/ items[gi].n = 0)
       THEN /\ summaries' = PushSummary(summaries, [styleName |-> items[gi].folderName,
                                                    status |-> "Failed", filesFound |-> 0,
                                                    notes |-> EmptyNotes(variant)])
            /\ rpc' = "head"
            /\ UNCHANGED <<rqueue, inflight, bresults, bfailed, counters, fatalAt>>
       ELSE IF variant = "sheet" /\ (rootBlocked \/ items[gi].n = 0 \/ runAborted)
       THEN /\ SkipGroup(gi, FALSE)
            /\ UNCHANGED <<rqueue, inflight, bresults, bfailed, counters>>
       ELSE /\ StartBatch(items[gi].n)
            /\ UNCHANGED <<summaries, fatalAt>>
    /\ UNCHANGED <<variant, items, keyMissing, gi, allFiles, shown, runAborted, refNull,
                   abortedAt, filesAtAbort>>
    /\ UNCHANGED nonRunVars

\* The producer call of task i settles and its worker goes on: a result is
\* named and pushed or the failure counted, then the next task is taken
\* unless the signal has fired.
ProducerSettles(i, ok) ==
    /\ rpc = "batch"
    /\ i \in inflight
    /\ ok \in ProducerOutcomes(variant, runAborted)
    /\ IF ok
       THEN /\ bresults' = Append(bresults, ProducedFile(variant, items[gi], gi, i, counters))
            /\ counters' = IF variant = "web" THEN counters
                           ELSE Bump(counters, CounterKey(variant, items[gi], i))
            /\ UNCHANGED bfailed
       ELSE /\ bfailed' = bfailed + 1
            /\ UNCHANGED <<bresults, counters>>
    /\ IF rqueue # <<>> /\ ~ShouldStop(runAborted)
       THEN /\ inflight' = (inflight \ {i}) \cup {Head(rqueue)}
            /\ rqueue' = Tail(rqueue)
       ELSE /\ inflight' = inflight \ {i}
            /\ UNCHANGED rqueue
    /\ UNCHANGED <<variant, items, keyMissing, rpc, gi, allFiles, summaries, shown, fatalAt,
                   runAborted, refNull, abortedAt, filesAtAbort, blocked>>
    /\ UNCHANGED nonRunVars

\* downloadBatch resolves and the loop body goes on: the group's files are
\* merged and (WebDownloader, DriveDownloader) its summary is pushed.
BatchReturns ==
    /\ rpc = "batch"
    /\ BatchDone(inflight)
    /\ allFiles' = allFiles \o bresults
    /\ summaries' = IF variant = "sheet" THEN summaries
                    ELSE PushSummary(summaries,
                                     [styleName |-> items[gi].folderName,
                                      status |-> Status(variant, Len(bresults), bfailed,
                                                       items[gi].n),
                                      filesFound |-> Len(bresults),
                                      notes |-> Notes(variant, Len(bresults), bfailed)])
    /\ rpc' = "head"
    /\ UNCHANGED <<variant, items, keyMissing, gi, rqueue, inflight, bresults, bfailed,
                   counters, shown, fatalAt, runAborted, refNull, abortedAt, filesAtAbort,
                   blocked>>
    /\ UNCHANGED nonRunVars

\* After the loop: setResults (the Drive components: only with at least one
\* file); handleSheetData then drops its controller.
Finish ==
    /\ \/ rpc = "head" /\ gi = Len(items)
       \/ rpc = "after"
    /\ rpc' = "done"
    /\ shown' = IF Surfaced(variant, allFiles)
                THEN [files |-> allFiles, summaries |-> summaries, set |-> TRUE]
                ELSE shown
    /\ refNull' = IF variant \in {"web", "sheet"} THEN TRUE ELSE refNull
    /\ UNCHANGED <<variant, items, keyMissing, gi, rqueue, inflight, bresults, bfailed,
                   counters, allFiles, summaries, fatalAt, runAborted, abortedAt,
                   filesAtAbort, blocked>>
    /\ UNCHANGED nonRunVars

\* The assets the run has retrieved so far.
RetrievedNow == IF rpc = "batch" THEN allFiles \o bresults ELSE allFiles

\* The reset handler of the Drive components while the run awaits a
\* listing or a download: the controller is aborted and the shown results
\* are cleared; handleReset of the earlier component also drops the
\* controller. WebDownloader's reset never calls abort().
Reset ==
    /\ variant \in {"drive", "sheet"}
    /\ \/ rpc = "listing"
       \/ rpc = "batch" /\ inflight # {}
    /\ ~runAborted
    /\ runAborted' = TRUE
    /\ refNull' = (variant = "sheet")
    /\ shown' = NoResults
    /\ abortedAt' = gi
    /\ filesAtAbort' = RetrievedNow
    /\ UNCHANGED <<variant, items, keyMissing, rpc, gi, rqueue, inflight, bresults, bfailed,
                   counters, allFiles, summaries, fatalAt, blocked>>
    /\ UNCHANGED nonRunVars

\* ------------------------------------------------------- archive operations

\* Files a Drive run produces: two groups with a subfolder of the same
\* display name each, and two files directly in a group's folder.
ArchivePool ==
    {[folder |-> <<"SKU1", "front_view">>,
      newName |-> [prefix |-> "front_view", index |-> 1, ext |-> "png"]],
     [folder |-> <<"SKU_2", "front_view">>,
      newName |-> [prefix |-> "front_view", index |-> 1, ext |-> "png"]],
     [folder |-> <<"SKU1">>, newName |-> [prefix |-> "SKU1", index |-> 2, ext |-> "png"]],
     [folder |-> <<"SKU1">>, newName |-> [prefix |-> "SKU1", index |-> 10, ext |-> "png"]]}

\* The rank of a prefix among the prefixes above when letters are compared
\* without regard to case (sensitivity: 'base').
BaseRank(prefix) ==
    CASE prefix \in {"front_view", "Front_View"} -> 1
      [] prefix \in {"SKU1", "sku1"} -> 2
      [] OTHER -> 3

\* collator.compare(a.newName, b.newName) <= 0, with numeric: true: the
\* digits of the index compare as a number.
NameLeq(a, b) ==
    \/ BaseRank(a.newName.prefix) < BaseRank(b.newName.prefix)
    \/ /\ BaseRank(a.newName.prefix) = BaseRank(b.newName.prefix)
       /\ a.newName.index <= b.newName.index

\* Array.prototype.sort is stable: an element goes behind every element
\* that does not compare greater than it.
InsertSorted(sorted, x) ==
    LET keep == {k \in 1..Len(sorted) : NameLeq(sorted[k], x)}
        at == IF keep = {} THEN 0 ELSE CHOOSE k \in keep : \A j \in keep : j <= k
    IN  SubSeq(sorted, 1, at) \o <<x>> \o SubSeq(sorted, at + 1, Len(sorted))

RECURSIVE SortByName(_)
SortByName(fs) ==
    IF fs = <<>> THEN <<>>
    ELSE InsertSorted(SortByName(SubSeq(fs, 1, Len(fs) - 1)), fs[Len(fs)])

\* An entry of the JSZip object: a directory, or a file in a directory.
NoName == [prefix |-> "", index |-> 0, ext |-> ""]
DirEntry(dir) == [kind |-> "dir", dir |-> dir, file |-> NoName]
FileEntry(dir, name) == [kind |-> "file", dir |-> dir, file |-> name]
ReportEntry == [kind |-> "SYNC_REPORT.xlsx", dir |-> <<>>, file |-> NoName]

\* Assigning an entry that exists keeps its place among the entries.
AddEntry(ms, e) == IF e \in Range(ms) THEN ms ELSE Append(ms, e)

\* zip.folder(path): the directory and the directories above it.
RECURSIVE AddFolder(_, _, _)
AddFolder(ms, dir, k) ==
    IF k > Len(dir) THEN ms
    ELSE AddFolder(AddEntry(ms, DirEntry(SubSeq(dir, 1, k))), dir, k + 1)

\* `zip.folder(f.folder).file(f.newName, f.blob)` for each sorted file.
RECURSIVE WriteFiles(_, _)
WriteFiles(ms, fs) ==
    IF fs = <<>> THEN ms
    ELSE WriteFiles(AddEntry(AddFolder(ms, Head(fs).folder, 1),
                             FileEntry(Head(fs).folder, Head(fs).newName)),
                    Tail(fs))

\* Lists of distinct files of the pool.
FileLists ==
    {fs \in UNION {[1..k -> ArchivePool] : k \in 0..MaxFiles} :
        \A j, k \in 1..Len(fs) : fs[j] = fs[k] => j = k}

ArchiveNone ==
    /\ zpc = "idle"
    /\ zfiles = <<>>
    /\ zreport = FALSE
    /\ sortedFiles = <<>>
    /\ members = <<>>

ArchiveInit ==
    /\ zpc = "idle"
    /\ zfiles \in FileLists
    /\ zreport \in BOOLEAN
    /\ sortedFiles = <<>>
    /\ members = <<>>

\* createFinalArchive up to `await zip.generateAsync`.
CreateFinalArchive ==
    /\ zpc = "idle"
    /\ sortedFiles' = SortByName(zfiles)
    /\ members' = IF zreport
                  THEN AddEntry(WriteFiles(<<>>, SortByName(zfiles)), ReportEntry)
                  ELSE WriteFiles(<<>>, SortByName(zfiles))
    /\ zpc' = "generating"
    /\ UNCHANGED <<zfiles, zreport>>
    /\ UNCHANGED nonArchiveVars

\* generateAsync resolves with the archive.
GenerateSettles ==
    /\ zpc = "generating"
    /\ zpc' = "done"
    /\ UNCHANGED <<zfiles, zreport, sortedFiles, members>>
    /\ UNCHANGED nonArchiveVars

\* --------------------------------------------------------- crawl operations

Containers == {"root", "s1", "s2"}

FolderMime == "application/vnd.google-apps.folder"

\* Children a listing can hold: subfolders, an image by its type, an image
\* by its extension only, and a file that is neither.
SubFolder(id) == [id |-> id, mimeType |-> FolderMime, ext |-> ""]
Image(id) == [id |-> id, mimeType |-> "image/png", ext |-> "png"]
ImageByExt(id) == [id |-> id, mimeType |-> "application/octet-stream", ext |-> "JPG"]
Document(id) == [id |-> id, mimeType |-> "application/pdf", ext |-> "pdf"]

\* The folder trees explored.
Trees ==
    {[c \in Containers |-> IF c = "root" THEN <<Image("r1")>> ELSE <<>>],
     [c \in Containers |->
        CASE c = "root" -> <<SubFolder("s1"), Image("r1")>>
          [] c = "s1" -> <<ImageByExt("a1")>>
          [] OTHER -> <<>>],
     [c \in Containers |->
        CASE c = "root" -> <<SubFolder("s1"), SubFolder("s2")>>
          [] c = "s1" -> <<Image("a1")>>
          [] OTHER -> <<Image("b1"), Document("d1")>>],
     [c \in Containers |->
        CASE c = "root" -> <<SubFolder("s1")>>
          [] c = "s1" -> <<SubFolder("s2"), Image("a1")>>
          [] OTHER -> <<Image("b1")>>]}

\* item.name of a subfolder; rootName for the root.
DisplayName(id) ==
    CASE id = "root" -> "SKU1"
      [] id = "s1" -> SubFolderName
      [] OTHER -> "back"

IsFolder(item) == item.mimeType = FolderMime

\* /\.(jpg|jpeg|png|webp|gif|bmp|tiff|jfif)$/i.test(item.name) ||
\* item.mimeType.startsWith('image/')
IsImage(item) ==
    \/ item.ext \in {"jpg", "jpeg", "png", "webp", "gif", "bmp", "tiff", "jfif",
                     "JPG", "JPEG", "PNG", "WEBP", "GIF", "BMP", "TIFF", "JFIF"}
    \/ item.mimeType \in {"image/png", "image/jpeg", "image/gif", "image/webp", "image/bmp"}

SubFoldersOf(listing) ==
    {listing[k].id : k \in {k \in 1..Len(listing) : IsFolder(listing[k])}}

\* The children pushed to `files`, in listing order.
ImagesOf(listing) ==
    LET pick(item) == ~IsFolder(item) /\ IsImage(item)
    IN  SelectSeq(listing, pick)

\* How fetchAllInFolder can end for one container: the key is missing
\* (every call throws before any request), or the request is answered with
\* the children, with an error body that says the key is not valid, or not
\* at all (version 1) / with 403 (version 2).
ListingOutcomes(v, km) ==
    IF km THEN {IF v = 1 THEN KeyMissingMsg ELSE KeyMissingMsg2}
    ELSE IF v = 1 THEN {"ok", KeyInvalidMsg, UnreachableMsg}
    ELSE {"ok", KeyInvalidMsg2, ForbiddenMsg}

\* Mutant: the catch block throws every error again.
RethrowsAlways(v, msg) == TRUE

\* The catch block of crawl: version 1 throws the error again when its
\* message includes 'API_KEY', version 2 never does.
Rethrows(v, msg) == v = 1 /\ Includes(msg, "API_KEY")

NoCret == [kind |-> "none", msg |-> ""]

\* Mutant: crawl does not enter the container in the registry.
RegisterNothing(reg, ids) == reg

\* `folders.set(id, name)` at the head of crawl, for each container of ids.
Register(reg, ids) == reg \cup {<<d, DisplayName(d)>> : d \in ids}

\* Mutant: crawl does not wait for its sub-crawls.
JoinReadyEarly(subs, st) == TRUE

\* `await Promise.all(subTasks)` resolves: every sub-crawl has resolved.
JoinReady(subs, st) == \A d \in subs : st[d] = "resolved"

CrawlNone ==
    /\ cversion = 1
    /\ ckeyMissing = FALSE
    /\ tree = [c \in Containers |-> <<>>]
    /\ cstate = [c \in Containers |-> "none"]
    /\ cerr = [c \in Containers |-> ""]
    /\ cfiles = <<>>
    /\ cfolders = {}
    /\ cret = NoCret
    /\ requests = [c \in Containers |-> 0]
    /\ rootFirst = ""
    /\ listingLog = [c \in Containers |-> ""]

CrawlInit ==
    /\ cversion \in {1, 2}
    /\ ckeyMissing \in BOOLEAN
    /\ tree \in Trees
    /\ cstate = [c \in Containers |-> "none"]
    /\ cerr = [c \in Containers |-> ""]
    /\ cfiles = <<>>
    /\ cfolders = {}
    /\ cret = NoCret
    /\ requests = [c \in Containers |-> 0]
    /\ rootFirst = ""
    /\ listingLog = [c \in Containers |-> ""]

\* fetchFolderContents up to the first await of crawl(folderId, rootName):
\* the root is registered and its listing requested.
FetchFolderContents ==
    /\ cret.kind = "none"
    /\ cret' = [kind |-> "pending", msg |-> ""]
    /\ cfolders' = Register({}, {"root"})
    /\ cstate' = [cstate EXCEPT !["root"] = "listing"]
    /\ requests' = [requests EXCEPT !["root"] = @ + 1]
    /\ UNCHANGED <<cversion, ckeyMissing, tree, cerr, cfiles, rootFirst, listingLog>>
    /\ UNCHANGED nonCrawlVars

\* The catch block of crawl(c) with error message msg.
CatchCrawl(c, msg) ==
    /\ cstate' = [cstate EXCEPT ![c] = IF Rethrows(cversion, msg) THEN "rejected" ELSE "resolved"]
    /\ cerr' = [cerr EXCEPT ![c] = IF Rethrows(cversion, msg) THEN msg ELSE @]

\* `await fetchAllInFolder(id)` of crawl(c) settles and crawl runs to its
\* next await: the children are classified, a crawl is started for every
\* subfolder (registered, listing requested) and every image is collected.
CrawlListing(c, o) ==
    /\ cstate[c] = "listing"
    /\ o \in ListingOutcomes(cversion, ckeyMissing)
    /\ rootFirst' = IF c = "root" THEN o ELSE rootFirst
    /\ listingLog' = [listingLog EXCEPT ![c] = o]
    /\ IF o = "ok"
       THEN /\ cstate' = [d \in Containers |->
                            IF d = c THEN "joining"
                            ELSE IF d \in SubFoldersOf(tree[c]) THEN "listing"
                            ELSE cstate[d]]
            /\ cfolders' = Register(cfolders, SubFoldersOf(tree[c]))
            /\ requests' = [d \in Containers |->
                              IF d \in SubFoldersOf(tree[c]) THEN requests[d] + 1
                              ELSE requests[d]]
            /\ cfiles' = cfiles \o ImagesOf(tree[c])
            /\ UNCHANGED cerr
       ELSE /\ CatchCrawl(c, o)
            /\ UNCHANGED <<cfolders, requests, cfiles>>
    /\ UNCHANGED <<cversion, ckeyMissing, tree, cret>>
    /\ UNCHANGED nonCrawlVars

\* `await Promise.all(subTasks)` of crawl(c) settles: it rejects as soon as
\* one sub-crawl has rejected, and resolves when all have resolved.
CrawlJoin(c) ==
    /\ cstate[c] = "joining"
    /\ \/ /\ \E d \in SubFoldersOf(tree[c]) :
                /\ cstate[d] = "rejected"
                /\ CatchCrawl(c, cerr[d])
       \/ /\ JoinReady(SubFoldersOf(tree[c]), cstate)
          /\ cstate' = [cstate EXCEPT ![c] = "resolved"]
          /\ UNCHANGED cerr
    /\ UNCHANGED <<cversion, ckeyMissing, tree, cfiles, cfolders, cret, requests, rootFirst,
                   listingLog>>
    /\ UNCHANGED nonCrawlVars

\* `await crawl(folderId, rootName)` settles: fetchFolderContents returns
\* {files, folders} or rejects with the error of the root's crawl.
CrawlReturns ==
    /\ cret.kind = "pending"
    /\ cstate["root"] \in {"resolved", "rejected"}
    /\ cret' = IF cstate["root"] = "resolved"
               THEN [kind |-> "resolved", msg |-> ""]
               ELSE [kind |-> "rejected", msg |-> cerr["root"]]
    /\ UNCHANGED <<cversion, ckeyMissing, tree, cstate, cerr, cfiles, cfolders, requests,
                   rootFirst, listingLog>>
    /\ UNCHANGED nonCrawlVars

\* ---------------------------------------------------------- specifications

\* ------------------------------------------------- fetchWithRetry operations

\* `retries`: the default of each version (no caller passes another value).
RetriesV1 == 2
RetriesV2 == 3
RetriesV3 == 3

Retries(v) == CASE v = 1 -> RetriesV1 [] v = 2 -> RetriesV2 [] OTHER -> RetriesV3

\* How a request can end: a response with a status, or a rejection.
Outcomes == {"200", "403", "404", "429", "500", "throw"}

\* res.ok
Ok(o) == o = "200"

Direct(o) == [kind |-> "direct", out |-> o]
Failover(o) == [kind |-> "failover", out |-> o]
Wait == [kind |-> "wait", out |-> "none"]

NoQret == [kind |-> "none", val |-> "none"]
QReturned(o) == [kind |-> "returned", val |-> o]
QThrew(msg) == [kind |-> "threw", val |-> msg]

RetryNone ==
    /\ qver = 1
    /\ qkeyMissing = FALSE
    /\ qpc = "idle"
    /\ qi = 0
    /\ qlog = <<>>
    /\ qret = NoQret

\* ------------------------------------------------ fetchAllInFolder operations

\* The pages a container can have: page k is a response body without a
\* `files` field, or one with the children listed.
PagesAt(k) ==
    {[hasFiles |-> FALSE, files |-> <<>>],
     [hasFiles |-> TRUE, files |-> <<Image(<<k, 1>>)>>],
     [hasFiles |-> TRUE, files |-> <<SubFolder(<<k, 1>>), ImageByExt(<<k, 2>>)>>],
     [hasFiles |-> TRUE, files |-> <<Document(<<k, 1>>), Image(<<k, 2>>)>>]}

PageLists ==
    UNION {{ps \in [1..n -> UNION {PagesAt(k) : k \in 1..n}] :
                \A k \in 1..n : ps[k] \in PagesAt(k)} : n \in 1..MaxPages}

\* data.nextPageToken of page k: present on every page but the last.
NextPageToken(ps, k) == IF k < Len(ps) THEN k + 1 ELSE 0

\* Mutant: the page replaces what was accumulated.
ConcatPageOverwrites(all, page) == IF page.hasFiles THEN page.files ELSE all

\* `if (data.files) allFiles = allFiles.concat(data.files);`
ConcatPage(all, page) == IF page.hasFiles THEN all \o page.files ELSE all

ListNone ==
    /\ lpages = <<>>
    /\ lpc = "idle"
    /\ lk = 0
    /\ lall = <<>>
    /\ lfiles = <<>>
    /\ lsubs = {}
    /\ lerr = ""

ListInit ==
    /\ lpages \in PageLists
    /\ lpc = "idle"
    /\ lk = 0
    /\ lall = <<>>
    /\ lfiles = <<>>
    /\ lsubs = {}
    /\ lerr = ""

\* crawl calls fetchAllInFolder, which requests the first page.
FetchAllInFolder ==
    /\ lpc = "idle"
    /\ lpc' = "requesting"
    /\ lk' = 1
    /\ UNCHANGED <<lpages, lall, lfiles, lsubs, lerr>>
    /\ UNCHANGED nonListVars

\* The request of page lk settles: fetchWithRetry throws, the body holds an
\* error, or the page is added and the next one requested; after the last
\* page fetchAllInFolder returns and crawl classifies the children.
PageSettles(o) ==
    /\ lpc = "requesting"
    /\ IF o # "ok"
       THEN /\ lpc' = "failed"
            /\ lerr' = o
            /\ UNCHANGED <<lk, lall, lfiles, lsubs>>
       ELSE /\ lall' = ConcatPage(lall, lpages[lk])
            /\ IF NextPageToken(lpages, lk) # 0
               THEN /\ lk' = NextPageToken(lpages, lk)
                    /\ UNCHANGED <<lpc, lfiles, lsubs>>
               ELSE /\ lpc' = "classified"
                    /\ lfiles' = ImagesOf(lall')
                    /\ lsubs' = SubFoldersOf(lall')
                    /\ UNCHANGED lk
            /\ UNCHANGED lerr
    /\ UNCHANGED lpages
    /\ UNCHANGED nonListVars

\* ------------------------------------------- WebDownloader over several runs

\* The runs of processBatch followed in one life of the component.
RunIds == {1, 2}

\* The items of a run: the number of URLs of each group.
WebItems == UNION {[1..n -> 1..MaxUrls] : n \in 1..MaxGroups}

NoRun == [pc |-> "none", items |-> <<>>, gi |-> 0, files |-> 0, readOwn |-> TRUE]
NoWebResults == [set |-> FALSE, files |-> 0, by |-> 0]
ZeroStats == [groups |-> 0, assets |-> 0, faults |-> 0]

WebNone ==
    /\ isProcessing = FALSE
    /\ hasInput = FALSE
    /\ ctrlRef = 0
    /\ wruns = [r \in RunIds |-> NoRun]
    /\ wresults = NoWebResults
    /\ wstats = ZeroStats

\* The user types links or loads a sheet: the textarea and the uploader
\* are disabled while isProcessing.
TypeLinks ==
    /\ ~isProcessing
    /\ ~hasInput
    /\ hasInput' = TRUE
    /\ UNCHANGED <<isProcessing, ctrlRef, wruns, wresults, wstats>>
    /\ UNCHANGED nonWebVars

\* Mutant: the faults of a group with results are not added.
AddStatsAssetsOnly(st, k, n) == [st EXCEPT !.assets = @ + k]

\* The setStats call after a group's batch with k files out of n URLs.
AddStats(st, k, n) ==
    IF k > 0
    THEN [st EXCEPT !.assets = @ + k, !.faults = @ + (n - k)]
    ELSE [st EXCEPT !.faults = @ + n]

\* processBatch of run r from its start to the first downloadBatch call:
\* the Start button is rendered when there is input and ~isProcessing.
WebProcessBatch(r, its) ==
    /\ hasInput
    /\ ~isProcessing
    /\ wruns[r].pc = "none"
    /\ \A q \in RunIds : q < r => wruns[q].pc # "none"
    /\ isProcessing' = TRUE
    /\ wresults' = NoWebResults
    /\ wstats' = [groups |-> Len(its), assets |-> 0, faults |-> 0]
    /\ ctrlRef' = r
    /\ wruns' = [wruns EXCEPT ![r] = [pc |-> "batch", items |-> its, gi |-> 1, files |-> 0,
                                      readOwn |-> TRUE]]
    /\ UNCHANGED hasInput
    /\ UNCHANGED nonWebVars

\* downloadBatch of run r resolves with k results: statistics, summary,
\* then the loop head of the next group (which reads
\* abortControllerRef.current.signal) or the end of the run.
WebBatchSettles(r, k) ==
    /\ wruns[r].pc = "batch"
    /\ k \in 0..wruns[r].items[wruns[r].gi]
    /\ wstats' = AddStats(wstats, k, wruns[r].items[wruns[r].gi])
    /\ IF wruns[r].gi < Len(wruns[r].items)
       THEN IF ctrlRef = 0
            THEN \* TypeError, caught; finally
                 /\ wruns' = [wruns EXCEPT ![r].pc = "faulted", ![r].files = @ + k,
                                           ![r].readOwn = FALSE]
                 /\ isProcessing' = FALSE
                 /\ ctrlRef' = 0
                 /\ UNCHANGED wresults
            ELSE /\ wruns' = [wruns EXCEPT ![r].gi = @ + 1, ![r].files = @ + k,
                                           ![r].readOwn = @ /\ ctrlRef = r]
                 /\ UNCHANGED <<isProcessing, ctrlRef, wresults>>
       ELSE /\ wruns' = [wruns EXCEPT ![r].pc = "done", ![r].files = @ + k]
            /\ wresults' = [set |-> TRUE, files |-> wruns[r].files + k, by |-> r]
            /\ isProcessing' = FALSE
            /\ ctrlRef' = 0
    /\ UNCHANGED hasInput
    /\ UNCHANGED nonWebVars

\* reset: rendered when results, linksText or pendingItems is set; it
\* clears the state and does not touch a run in progress.
WebReset ==
    /\ wresults.set \/ hasInput
    /\ isProcessing' = FALSE
    /\ wresults' = NoWebResults
    /\ hasInput' = FALSE
    /\ wstats' = ZeroStats
    /\ UNCHANGED <<ctrlRef, wruns>>
    /\ UNCHANGED nonWebVars

\* ------------------------------------------------------- the categorizer

\* The characters of the file names explored, by class.
Digits == {"7"}
Uppers == {"A"}
Lowers == {"a", "j", "p", "g", "t", "x"}
Spaces == {" "}
StemChars == {"_", "-", " ", "7", "A", "a", "("}

\* The file names: a stem and an extension.
Stems == UNION {[1..n -> StemChars] : n \in 1..MaxStem}
FileNames == {st \o ext : st \in Stems, ext \in {<<".", "j", "p", "g">>, <<".", "t", "x", "t">>}}

\* name.startsWith(p)
StartsWith(name, p) == Len(name) >= Len(p) /\ SubSeq(name, 1, Len(p)) = p

\* name.split(ch)[0]
FirstPart(name, ch) ==
    IF ch \in Range(name)
    THEN SubSeq(name, 1, (CHOOSE k \in 1..Len(name) :
                              name[k] = ch /\ \A j \in 1..(k - 1) : name[j] # ch) - 1)
    ELSE name

\* String.prototype.trim
RECURSIVE Trim(_)
Trim(str) ==
    IF str = <<>> THEN str
    ELSE IF Head(str) \in Spaces THEN Trim(Tail(str))
    ELSE IF str[Len(str)] \in Spaces THEN Trim(SubSeq(str, 1, Len(str) - 1))
    ELSE str

\* The longest leading run of characters of a class.
LeadingRun(name, cls) ==
    SubSeq(name, 1, CHOOSE k \in 0..Len(name) :
                        /\ \A j \in 1..k : name[j] \in cls
                        /\ k < Len(name) => name[k + 1] \notin cls)

\* The reserved bucket.
Unmatched == <<"UNMATCHED">>

\* /^([A-Z0-9]+?)(?=[a-z\s.]|$)/: the leading run of capitals and digits
\* when a lower-case letter, a space, a dot or the end follows it.
SmartMatch(name) ==
    LET run == LeadingRun(name, Uppers \cup Digits)
    IN  IF Len(run) = Len(name) \/ name[Len(run) + 1] \in Lowers \cup Spaces \cup {"."}
        THEN run ELSE <<>>

\* extractSkuPrefix of part_003.
ExtractSkuPrefix(name) ==
    IF "_" \in Range(name) THEN Trim(FirstPart(name, "_"))
    ELSE IF "-" \in Range(name) THEN Trim(FirstPart(name, "-"))
    ELSE IF " " \in Range(name) THEN Trim(FirstPart(name, " "))
    ELSE IF Len(LeadingRun(name, Digits)) >= 2 THEN LeadingRun(name, Digits)
    ELSE IF Len(SmartMatch(name)) >= 2 THEN SmartMatch(name)
    ELSE IF LeadingRun(name, Uppers \cup Lowers \cup Digits) # <<>>
    THEN SubSeq(LeadingRun(name, Uppers \cup Lowers \cup Digits), 1,
                Min(8, Len(LeadingRun(name, Uppers \cup Lowers \cup Digits))))
    ELSE Unmatched

\* The folder AssetCategorizer.tsx computes in place: the part before the
\* first underscore if there is one and it is not blank.
PrefixBeforeUnderscore(name) ==
    IF "_" \in Range(name) /\ Trim(FirstPart(name, "_")) # <<>>
    THEN Trim(FirstPart(name, "_"))
    ELSE Unmatched

\* The filter of processCategorization: no system clutter, images only.
AcceptedName(name) ==
    /\ ~StartsWith(name, <<".">>)
    /\ ~StartsWith(name, <<"_", "_">>)
    /\ Len(name) >= 4
    /\ SubSeq(name, Len(name) - 3, Len(name)) = <<".", "j", "p", "g">>

CatNone ==
    /\ kver = 1
    /\ kname = <<>>
    /\ kpc = "skipped"
    /\ kfolder = <<>>

CatInit ==
    /\ kver \in {1, 2}
    /\ kname \in FileNames
    /\ kpc = "pending"
    /\ kfolder = <<>>

\* The body of fileArray.forEach for the file.
ProcessCategorization ==
    /\ kpc = "pending"
    /\ IF AcceptedName(kname)
       THEN /\ kpc' = "pushed"
            /\ kfolder' = IF kver = 1 THEN ExtractSkuPrefix(kname)
                           ELSE PrefixBeforeUnderscore(kname)
       ELSE /\ kpc' = "skipped"
            /\ UNCHANGED kfolder
    /\ UNCHANGED <<kver, kname>>
    /\ UNCHANGED nonCatVars

ExtraNone == RetryNone /\ ListNone /\ WebNone /\ CatNone

RetryInit ==
    /\ qver \in {1, 2, 3}
    /\ qkeyMissing \in (IF qver = 3 THEN {FALSE} ELSE BOOLEAN)
    /\ qpc = "idle"
    /\ qi = 0
    /\ qlog = <<>>
    /\ qret = NoQret

\* Mutant: the loop tests `i <= retries`.
LoopEndsLate(v, i) == i > Retries(v)

\* `i < retries` is false: the loop is left.
LoopEnds(v, i) == i >= Retries(v)

\* What follows the loop: the failover request (first version) or the
\* timeout error.
AfterLoop ==
    IF qver = 1
    THEN qpc' = "failover" /\ UNCHANGED qret
    ELSE qpc' = "threw" /\ qret' = QThrew("Drive Connection Timeout")

\* The call up to its first await: the key test, then the first request.
FetchWithRetry ==
    /\ qpc = "idle"
    /\ IF qkeyMissing
       THEN /\ qpc' = "threw"
            /\ qret' = QThrew(IF qver = 1 THEN KeyMissingMsg ELSE KeyMissingMsg2)
       ELSE IF LoopEnds(qver, 0)
       THEN AfterLoop
       ELSE qpc' = "direct" /\ UNCHANGED qret
    /\ UNCHANGED <<qver, qkeyMissing, qi, qlog>>
    /\ UNCHANGED nonRetryVars

\* `continue`, or the end of the loop body: i++ and the next request if
\* the loop goes on.
NextIteration ==
    /\ qi' = qi + 1
    /\ IF LoopEnds(qver, qi + 1)
       THEN AfterLoop
       ELSE qpc' = "direct" /\ UNCHANGED qret

\* The catch block of the loop: the last iteration breaks (first version)
\* or rethrows, the others wait a second.
CatchRetry(msg) ==
    IF qi = Retries(qver) - 1
    THEN /\ IF qver = 1
            THEN qpc' = "failover" /\ UNCHANGED qret
            ELSE qpc' = "threw" /\ qret' = QThrew(msg)
         /\ qlog' = Append(qlog, Direct(msg))
         /\ UNCHANGED qi
    ELSE /\ qpc' = "waiting"
         /\ qlog' = Append(Append(qlog, Direct(msg)), Wait)
         /\ UNCHANGED <<qi, qret>>

\* The statuses on which the loop body waits and continues.
Throttled(v, o) == IF v = 3 THEN o \in {"403", "429"} ELSE o = "429"

\* The direct request of iteration qi is answered with o.
DirectSettles(o) ==
    /\ qpc = "direct"
    /\ IF o = "throw"
       THEN CatchRetry("throw")
       ELSE IF Throttled(qver, o)
       THEN /\ qpc' = "waiting"
            /\ qlog' = Append(Append(qlog, Direct(o)), Wait)
            /\ UNCHANGED <<qi, qret>>
       ELSE IF qver = 1 /\ o = "403"
       THEN /\ qpc' = "failover"
            /\ qlog' = Append(qlog, Direct(o))
            /\ UNCHANGED <<qi, qret>>
       ELSE IF Ok(o) \/ qver = 3
       THEN /\ qpc' = "returned"
            /\ qret' = QReturned(o)
            /\ qlog' = Append(qlog, Direct(o))
            /\ UNCHANGED qi
       ELSE IF qver = 2
       THEN CatchRetry(o)
       ELSE /\ qlog' = Append(qlog, Direct(o))
            /\ NextIteration
    /\ UNCHANGED <<qver, qkeyMissing>>
    /\ UNCHANGED nonRetryVars

\* The timer of a wait fires: `continue` after a throttled response, the
\* end of the catch block after an error.
WaitDone ==
    /\ qpc = "waiting"
    /\ NextIteration
    /\ UNCHANGED <<qver, qkeyMissing, qlog>>
    /\ UNCHANGED nonRetryVars

\* The failover request through the proxy is answered with o.
FailoverSettles(o) ==
    /\ qpc = "failover"
    /\ qlog' = Append(qlog, Failover(o))
    /\ IF Ok(o)
       THEN qpc' = "returned" /\ qret' = QReturned(o)
       ELSE qpc' = "threw" /\ qret' = QThrew(UnreachableMsg)
    /\ UNCHANGED <<qver, qkeyMissing, qi>>
    /\ UNCHANGED nonRetryVars

BatchIdle ==
    /\ bpc = "idle"
    /\ total = 0
    /\ concurrency = 1
    /\ queue = <<>>
    /\ results = <<>>
    /\ failedCount = 0
    /\ done = 0
    /\ progressLog = <<>>
    /\ aborted = FALSE
    /\ worker = <<>>
    /\ outcome = <<>>
    /\ ret = NoRet
    /\ abortPhase = "none"
    /\ resultsAtAbort = <<>>
    /\ queuedAtAbort = 0

Init == BatchInit /\ FetchIdle /\ RunNone /\ ArchiveNone /\ CrawlNone /\ ExtraNone

Next ==
    \/ DownloadBatch
    \/ \E j \in 1..MaxN, o \in {"resolved"} \cup Errors : j <= total /\ Settle(j, o)
    \/ \E w \in 1..MaxConc : Resume(w)
    \/ Return
    \/ Abort

Spec == Init /\ [][Next]_vars

\* downloadBatch is called, every started producer call settles, and the
\* continuations the event loop has scheduled run.
BatchLiveSpec ==
    /\ Init /\ [][Next]_vars
    /\ WF_vars(DownloadBatch)
    /\ WF_vars(\E j \in 1..MaxN, o \in {"resolved"} \cup Errors : j <= total /\ Settle(j, o))
    /\ WF_vars(\E w \in 1..MaxConc : Resume(w))
    /\ WF_vars(Return)

FetchInit == BatchIdle /\ FetchIdle /\ RunNone /\ ArchiveNone /\ CrawlNone /\ ExtraNone

FetchNext ==
    \/ SmartFetch
    \/ \E o \in FetchOutcomes(TRUE) \cup FetchOutcomes(FALSE) : FetchSettles(o)
    \/ \E o \in BlobOutcomes(TRUE) \cup BlobOutcomes(FALSE) : BlobSettles(o)
    \/ FetchAbort

FetchSpec == FetchInit /\ [][FetchNext]_vars

\* smartFetch is called and every request and body read settles (the
\* transport ends each of them, with a response or an error).
FetchLiveSpec ==
    /\ FetchInit /\ [][FetchNext]_vars
    /\ WF_vars(SmartFetch)
    /\ WF_vars(\E o \in FetchOutcomes(TRUE) \cup FetchOutcomes(FALSE) : FetchSettles(o))
    /\ WF_vars(\E o \in BlobOutcomes(TRUE) \cup BlobOutcomes(FALSE) : BlobSettles(o))

RunSpecInit == BatchIdle /\ FetchIdle /\ RunInit /\ ArchiveNone /\ CrawlNone /\ ExtraNone

RunNext ==
    \/ ProcessBatch
    \/ GroupHead
    \/ \E rb \in BOOLEAN : ListingSettles(rb)
    \/ Reset
    \/ \E i \in 1..MaxUrls, ok \in BOOLEAN : ProducerSettles(i, ok)
    \/ BatchReturns
    \/ Finish

RunSpec == RunSpecInit /\ [][RunNext]_vars

ArchiveSpecInit == BatchIdle /\ FetchIdle /\ RunNone /\ ArchiveInit /\ CrawlNone /\ ExtraNone

ArchiveNext ==
    \/ CreateFinalArchive
    \/ GenerateSettles

ArchiveSpec == ArchiveSpecInit /\ [][ArchiveNext]_vars

CrawlSpecInit == BatchIdle /\ FetchIdle /\ RunNone /\ ArchiveNone /\ CrawlInit /\ ExtraNone

CrawlNext ==
    \/ FetchFolderContents
    \/ \E c \in Containers, o \in ListingOutcomes(1, TRUE) \cup ListingOutcomes(1, FALSE)
                                  \cup ListingOutcomes(2, TRUE) \cup ListingOutcomes(2, FALSE) :
          CrawlListing(c, o)
    \/ \E c \in Containers : CrawlJoin(c)
    \/ CrawlReturns

CrawlSpec == CrawlSpecInit /\ [][CrawlNext]_vars

\* Every listing settles and every continuation runs.
CrawlLiveSpec ==
    /\ CrawlSpec
    /\ WF_vars(FetchFolderContents)
    /\ \A c \in Containers :
          /\ WF_vars(\E o \in ListingOutcomes(cversion, ckeyMissing) : CrawlListing(c, o))
          /\ WF_vars(CrawlJoin(c))
    /\ WF_vars(CrawlReturns)

CoreNone == BatchIdle /\ FetchIdle /\ RunNone /\ ArchiveNone /\ CrawlNone

RetrySpecInit == CoreNone /\ RetryInit /\ ListNone /\ WebNone /\ CatNone

RetryNext ==
    \/ FetchWithRetry
    \/ \E o \in Outcomes : DirectSettles(o)
    \/ WaitDone
    \/ \E o \in Outcomes : FailoverSettles(o)

ListSpecInit == CoreNone /\ RetryNone /\ ListInit /\ WebNone /\ CatNone

ListNext ==
    \/ FetchAllInFolder
    \/ \E o \in {"ok", KeyInvalidMsg, UnreachableMsg} : PageSettles(o)

ListSpec == ListSpecInit /\ [][ListNext]_vars

WebSpecInit == CoreNone /\ ExtraNone

CatSpecInit == CoreNone /\ RetryNone /\ ListNone /\ WebNone /\ CatInit

CatNext == ProcessCategorization

CatSpec == CatSpecInit /\ [][CatNext]_vars

\* The component with every event of the user.
WebNext ==
    \/ TypeLinks
    \/ \E r \in RunIds, its \in WebItems : WebProcessBatch(r, its)
    \/ \E r \in RunIds, k \in 0..MaxUrls : WebBatchSettles(r, k)
    \/ WebReset

WebSpec == WebSpecInit /\ [][WebNext]_vars

\* One run of the component, which the user leaves alone while it is
\* processing.
WebSoloNext ==
    \/ TypeLinks
    \/ \E its \in WebItems : WebProcessBatch(1, its)
    \/ \E k \in 0..MaxUrls : WebBatchSettles(1, k)
    \/ ~isProcessing /\ WebReset

WebSoloSpec == WebSpecInit /\ [][WebSoloNext]_vars

\* Every request is answered or rejected and every timer fires.
RetrySpec ==
    /\ RetrySpecInit /\ [][RetryNext]_vars
    /\ WF_vars(FetchWithRetry)
    /\ WF_vars(\E o \in Outcomes : DirectSettles(o))
    /\ WF_vars(WaitDone)
    /\ WF_vars(\E o \in Outcomes : FailoverSettles(o))


\* ------------------------------------------------------------------ claims

IsPrefix(p, q) == Len(p) <= Len(q) /\ SubSeq(q, 1, Len(p)) = p

InFlight == {j \in 1..total : outcome[j] = "pending"}
Started == {j \in 1..total : outcome[j] # "queued"}
Rejected == {j \in 1..total : outcome[j] \in Errors}
Resolved == {j \in 1..total : outcome[j] = "resolved"}
Recorded == Len(results) + failedCount
Returned == Len(ret.results) + ret.failed

\* C1: with N >= 1 jobs and a concurrency in 1..N, a batch that returns
\* without the signal having fired returns results.length + failed = N.
C1_Conservation ==
    (bpc = "returned" /\ ~aborted /\ total >= 1 /\ concurrency \in 1..total)
        => Returned = total

C1_Witness ==
    /\ bpc = "returned" /\ ~aborted
    /\ total >= 3 /\ concurrency = 2
    /\ ret.failed >= 1 /\ Len(ret.results) >= 1

\* C2: the number of producer calls started and not yet settled never
\* exceeds min(concurrency, N).
C2_ConcurrencyCap ==
    Cardinality(InFlight) <= (IF concurrency < total THEN concurrency ELSE total)

C2_Witness ==
    /\ concurrency = 2 /\ total >= 3
    /\ Cardinality(InFlight) = 2
    /\ Recorded >= 1

\* C3 as stated: a signal that fires while the batch runs makes the call
\* resolve with results.length + failed < N, the results pushed before the
\* signal being kept.
C3_Original ==
    (bpc \in {"returned", "rejected"} /\ abortPhase = "running" /\ total >= 1)
        => /\ bpc = "returned"
           /\ Returned < total
           /\ IsPrefix(resultsAtAbort, ret.results)

\* C3 amended: a signal that fires while the batch runs makes the call
\* resolve with results.length + failed <= N, below N exactly when a job was
\* still queued when the signal fired; the results pushed before the signal
\* are kept.
C3_CancelKeepsPartial ==
    (bpc \in {"returned", "rejected"} /\ abortPhase = "running" /\ total >= 1)
        => /\ bpc = "returned"
           /\ Returned <= total
           /\ (Returned < total <=> queuedAtAbort > 0)
           /\ IsPrefix(resultsAtAbort, ret.results)

C3_Witness ==
    /\ bpc = "returned" /\ abortPhase = "running"
    /\ queuedAtAbort > 0
    /\ Len(resultsAtAbort) >= 1
    /\ Returned < total

\* C4: results.length + failedCount never exceeds N, and at the return it is
\* the number of jobs dequeued, which is N when the signal never fired.
C4_BatchInvariant ==
    /\ Recorded <= total
    /\ bpc = "returned" => /\ Returned = total - Len(queue)
                           /\ ~aborted => Returned = total

C4_Witness ==
    /\ bpc = "returned" /\ aborted
    /\ Len(queue) > 0
    /\ ret.failed >= 1 /\ Len(ret.results) >= 1

\* C5: once the signal is aborted no job is dequeued and no producer call is
\* started; the calls in flight settle and are recorded in results or failedCount.
C5_CancelStopsDequeue ==
    /\ [][aborted => /\ {j \in 1..total : outcome'[j] # "queued"} \subseteq Started
                     /\ bpc = "running" => queue' = queue]_vars
    /\ [](bpc = "returned" => /\ InFlight = {}
                              /\ Range(ret.results) = Resolved
                              /\ ret.failed = Cardinality(Rejected)
                              /\ Started = Resolved \cup Rejected)

C5_Witness ==
    /\ bpc = "returned" /\ abortPhase = "running"
    /\ Len(queue) > 0
    /\ Len(ret.results) > Len(resultsAtAbort)
    /\ ret.failed >= 1

\* C6: without cancellation, the continuation of a rejected producer call adds
\* one to failedCount and nothing to results, and every other job is still
\* started and recorded according to its own outcome.
C6_FailureIsolation ==
    /\ [][\A w \in 1..Len(worker) :
            (/\ worker[w].pc = "awaiting"
             /\ outcome[worker[w].task] \in Errors
             /\ worker'[w] # worker[w])
                => failedCount' = failedCount + 1 /\ results' = results]_vars
    /\ []((bpc \in {"returned", "rejected"} /\ ~aborted /\ Rejected # {})
            => /\ bpc = "returned"
               /\ \A j \in 1..total : outcome[j] \in {"resolved"} \cup Errors
               /\ \A j \in Resolved : j \in Range(ret.results)
               /\ \A j \in Rejected : j \notin Range(ret.results)
               /\ ret.failed = Cardinality(Rejected))

C6_Witness ==
    /\ bpc = "returned" /\ ~aborted
    /\ total >= 3 /\ concurrency = 1
    /\ outcome[1] = "Error" /\ outcome[2] = "resolved" /\ outcome[3] = "resolved"

\* C7: whatever the producer calls yield, an AbortError included, no worker
\* throws and downloadBatch never rejects; it resolves with {results, failed}.
C7_NoFailureEscapes ==
    /\ bpc # "rejected"
    /\ \A w \in 1..Len(worker) : worker[w].pc # "threw"
    /\ bpc = "returned" => ret = [results |-> results, failed |-> failedCount]

C7_Witness ==
    /\ bpc = "returned"
    /\ \E j \in 1..total : outcome[j] = "AbortError"
    /\ \E j \in 1..total : outcome[j] = "Error"
    /\ \E j \in 1..total : outcome[j] = "resolved"

\* C8: onProgress is called once per settled job, its arguments are
\* (1, N), (2, N), ... in this order, and the last call of a run without
\* cancellation is (N, N).
C8_ProgressReporting ==
    /\ Len(progressLog) = Recorded
    /\ \A i \in 1..Len(progressLog) : progressLog[i] = <<i, total>>
    /\ (bpc = "returned" /\ ~aborted /\ total >= 1)
          => Len(progressLog) = total /\ progressLog[total] = <<total, total>>

C8_Witness ==
    /\ bpc = "returned" /\ ~aborted
    /\ total >= 3
    /\ Len(progressLog) = total
    /\ failedCount >= 2 /\ Len(results) >= 1

FailedAttempt == {"status", "refused", "threw"}

\* C9: the strategies are attempted one at a time in the order CDN proxy
\* (wsrv), CORS relay (corsproxy), raw relay (allorigins), direct; a later one
\* only after the one before failed the acceptance test or threw an error
\* other than an abort; none after an accepted response.
C9_FallbackOrder ==
    /\ IsPrefix(attempts, <<"wsrv", "corsproxy", "allorigins", "direct">>)
    /\ Len(attemptLog) \in {Len(attempts) - 1, Len(attempts)}
    /\ fpc \in {"fetching", "reading"} <=> Len(attemptLog) = Len(attempts) - 1
    /\ \A i \in 1..Len(attemptLog) :
          /\ i < Len(attempts) => attemptLog[i] \in FailedAttempt
          /\ attemptLog[i] = "accepted" => i = Len(attempts) /\ fpc = "returned"
    /\ fpc = "returned" => attemptLog[Len(attempts)] = "accepted"

C9_Witness ==
    /\ fpc = "returned"
    /\ attempts = <<"wsrv", "corsproxy", "allorigins", "direct">>
    /\ attemptLog = <<"status", "refused", "threw", "accepted">>

\* C10: a signal that fires while an attempt is in flight (request or body)
\* ends that attempt and smartFetch with the AbortError: no later strategy is
\* attempted, no blob is returned, and the error thrown is not the
\* 'Target blocked or unreachable.' error.
C10_FetchCancellation ==
    abortedDuring >= 1 =>
        /\ Len(attempts) = abortedDuring
        /\ \/ fpc \in {"fetching", "reading"} /\ Len(attemptLog) = abortedDuring - 1
           \/ /\ fpc = "threw"
              /\ Len(attemptLog) = abortedDuring
              /\ attemptLog[abortedDuring] = "abort"
              /\ fret.name = "AbortError"
              /\ fret.message # "Target blocked or unreachable."

C10_Witness ==
    /\ abortedDuring = 3
    /\ fpc = "threw"
    /\ attemptLog = <<"refused", "threw", "abort">>


\* A delivery that is a rejected request or body read (not an abort), a
\* non-success status, an HTML content type or a body of at most 100 bytes.
BadDelivery(d) ==
    \/ d.kind = "reject" /\ d.name # "AbortError"
    \/ d.kind = "response" /\ ~d.ok
    \/ d.kind = "blob" /\ (d.blob.type = "text/html" \/ d.blob.size <= 100)

\* C11: when all four strategies were delivered a rejection, a non-success
\* status, an HTML body or a too-small body, smartFetch has thrown the
\* 'Target blocked or unreachable.' error after four attempts, one per
\* strategy; it throws that error in no other case; and it always ends.
C11_FallbackExhaustion ==
    /\ []((Len(delivered) = 4 /\ \A i \in 1..4 : BadDelivery(delivered[i]))
            => /\ fpc = "threw"
               /\ fret.name = "Error"
               /\ fret.message = "Target blocked or unreachable."
               /\ Len(attempts) = 4
               /\ Cardinality(Range(attempts)) = 4)
    /\ []((fpc = "threw" /\ fret.message = "Target blocked or unreachable.")
            => Len(delivered) = 4 /\ \A i \in 1..4 : BadDelivery(delivered[i]))
    /\ <>(fpc \in {"returned", "threw"})

C11_Witness ==
    /\ fpc = "threw"
    /\ Len(delivered) = 4
    /\ delivered[1].kind = "reject"
    /\ delivered[2].kind = "response"
    /\ delivered[3].kind = "blob" /\ delivered[3].blob = [size |-> 101, type |-> "text/html"]
    /\ delivered[4].kind = "blob" /\ delivered[4].blob = [size |-> 100, type |-> "image/jpeg"]

\* A response that fails the acceptance test: no success status, at most 100
\* bytes, or an HTML content type.
FailsAcceptance(d) ==
    \/ d.kind = "response" /\ ~d.ok
    \/ d.kind = "blob" /\ (~d.ok \/ d.blob.size <= 100 \/ d.blob.type = "text/html")

\* C12: a blob returned by smartFetch is the body of a response with success
\* status, is larger than 100 bytes and is not HTML; a response failing one of
\* the three is not returned and the next strategy is tried (after the last
\* strategy, the unreachable error is thrown).
C12_AcceptanceTest ==
    /\ fpc = "returned" =>
          LET d == delivered[Len(delivered)]
          IN  /\ d.kind = "blob" /\ d.ok
              /\ d.blob.size > 100
              /\ d.blob.type # "text/html"
              /\ fret = [kind |-> "blob", blob |-> d.blob]
    /\ \A i \in 1..Len(delivered) :
          FailsAcceptance(delivered[i]) =>
              /\ ~(fpc = "returned" /\ i = Len(delivered))
              /\ i < 4 => Len(attempts) > i
              /\ i = 4 => fpc = "threw"

C12_Witness ==
    /\ fpc = "returned"
    /\ Len(delivered) = 3
    /\ delivered[1].kind = "blob" /\ delivered[1].blob = [size |-> 100, type |-> "image/jpeg"]
    /\ delivered[2].kind = "blob" /\ delivered[2].blob = [size |-> 101, type |-> "text/html"]
    /\ fret.blob = [size |-> 101, type |-> ""]

\* ------------------------------------------------------- claims on the run

\* The merged files that came from group g, and the positions retrieved.
FilesOf(g) == {allFiles[k] : k \in {k \in 1..Len(allFiles) : allFiles[k].src[1] = g}}
Retrieved(g) == {f.src[2] : f \in FilesOf(g)}

\* The groups whose files have been merged into allFiles.
Merged == {g \in 1..Len(items) : g < gi \/ (g = gi /\ rpc \in {"head", "after", "done", "threw"})}

RECURSIVE Ascending(_)
Ascending(S) ==
    IF S = {} THEN <<>>
    ELSE LET m == CHOOSE x \in S : \A y \in S : x <= y
         IN <<m>> \o Ascending(S \ {m})

\* The files the producers of group g return when the tasks of `order`
\* complete in that order.
RECURSIVE Replay(_, _, _)
Replay(g, order, ctr) ==
    IF order = <<>> THEN {}
    ELSE {ProducedFile(variant, items[g], g, Head(order), ctr)}
         \cup Replay(g, Tail(order),
                     IF variant = "web" THEN ctr
                     ELSE Bump(ctr, CounterKey(variant, items[g], Head(order))))

Mapping(fs) == {[src |-> f.src, newName |-> f.newName] : f \in fs}

\* C13: for a group and a set of retrieved assets, the mapping from asset
\* to assigned name does not depend on the order in which the downloads
\* completed: it is the mapping of the run in which the same assets
\* complete in the order of the input.
C13_NamingOrderIndependent ==
    \A g \in Merged :
        Mapping(FilesOf(g)) = Mapping(Replay(g, Ascending(Retrieved(g)), NoCounters))

\* Natural order of original names: case-insensitive on the stem,
\* numeric on the number.
StemRank(s) ==
    CASE s \in {"a", "A"} -> 1
      [] s \in {"b", "B"} -> 2
      [] OTHER -> 3

NaturalLess(a, b) ==
    \/ StemRank(a.stem) < StemRank(b.stem)
    \/ StemRank(a.stem) = StemRank(b.stem) /\ a.num < b.num

\* The files numbered together with f: same group, same folder, same prefix.
Peers(f) ==
    {h \in FilesOf(f.src[1]) : h.folder = f.folder /\ h.newName.prefix = f.newName.prefix}

NaturalPosition(f) ==
    1 + Cardinality({h \in Peers(f) : NaturalLess(h.originalName, f.originalName)})

\* C14: the index in an asset's assigned name is the asset's 1-based
\* position in the natural sort of the original names of its group.
C14_NaturalSortIndex ==
    \A k \in 1..Len(allFiles) : allFiles[k].newName.index = NaturalPosition(allFiles[k])

\* C15: after a group's retrieval, whatever failed, the indices used in the
\* names of its retrieved assets are exactly 1..count: none skipped, none
\* used twice.
C15_GapFreeNumbering ==
    \A k \in 1..Len(allFiles) :
        /\ {h.newName.index : h \in Peers(allFiles[k])} = 1..Cardinality(Peers(allFiles[k]))
        /\ \A h \in Peers(allFiles[k]) :
              h.newName.index = allFiles[k].newName.index => h.src = allFiles[k].src

\* C17: in the final file list no two assets have the same folder and
\* name.
C17_UniqueArchivePaths ==
    \A j, k \in 1..Len(allFiles) :
        (allFiles[j].folder = allFiles[k].folder /\ allFiles[j].newName = allFiles[k].newName)
            => j = k

\* C18: a group's summary says Success exactly when all of its assets (at
\* least one) were retrieved, Partial exactly when some but not all were,
\* Failed exactly when none was.
C18_OutcomeClassification ==
    \A g \in 1..Len(summaries) :
        LET r == Cardinality(Retrieved(g))
            n == items[g].n
        IN  /\ (summaries[g].status = "Success") <=> (r >= 1 /\ r = n)
            /\ (summaries[g].status = "Partial") <=> (r >= 1 /\ r < n)
            /\ (summaries[g].status = "Failed") <=> (r = 0)

\* C19: once a group has hit a configuration error (key missing, invalid
\* folder link) the group loop has stopped: no later group is taken up and
\* no summary is produced for one.
C19_FatalErrorStopsRun ==
    fatalAt # 0 => (gi = fatalAt /\ Len(summaries) <= fatalAt)

\* --------------------------------------------------- claims on the archive

RECURSIVE Orders(_)
Orders(S) ==
    IF S = {} THEN {<<>>}
    ELSE UNION {{<<x>> \o o : o \in Orders(S \ {x})} : x \in S}

\* The member paths createFinalArchive writes for the list fs.
MemberPaths(fs) == WriteFiles(<<>>, SortByName(fs))

\* C16: createFinalArchive writes the members in the same sequence of
\* paths for every order in which the same assets were pushed.
C16_MemberOrderIndependent ==
    zpc \in {"generating", "done"} =>
        \A p \in Orders(Range(zfiles)) :
            MemberPaths(p) = SelectSeq(members, LAMBDA e : e # ReportEntry)

\* ----------------------------------------------------- claims on the crawl

\* The errors of a listing that say the credential is missing or not valid.
CredentialErrors == {KeyMissingMsg, KeyMissingMsg2, KeyInvalidMsg, KeyInvalidMsg2}

\* C20: when the first listing of the root container ends with a fatal
\* credential error, fetchFolderContents rejects with that error; it never
\* resolves.
C20_CrawlerFatalAbort ==
    (rootFirst \in CredentialErrors /\ cret.kind \in {"resolved", "rejected"})
        => (cret.kind = "rejected" /\ cret.msg = rootFirst)

\* Errors of a listing that are not about the credential.
BranchErrors == {UnreachableMsg, ForbiddenMsg}

\* The containers below the root, and those whose listing failed with an
\* error that is not about the credential.
SubContainers == Containers \ {"root"}
FailedBranches == {c \in SubContainers : listingLog[c] \in BranchErrors}

\* The images the listing of container c holds.
ImageIds(c) == {item.id : item \in Range(ImagesOf(tree[c]))}
Collected == {cfiles[k].id : k \in 1..Len(cfiles)}

\* C21: when the listing of a subcontainer fails with a non-fatal error,
\* the crawl is not rejected; once it has resolved, the failed container
\* has contributed no asset, every subfolder found in a successful listing
\* has been listed itself, and the images of every successfully listed
\* container are in the files.
C21_BranchIsolation ==
    FailedBranches # {} =>
        /\ cret.kind # "rejected"
        /\ \A c \in Containers : cstate[c] # "rejected"
        /\ cret.kind = "resolved" =>
              /\ \A c \in FailedBranches : ImageIds(c) \cap Collected = {}
              /\ \A c \in Containers :
                    listingLog[c] = "ok" =>
                        /\ ImageIds(c) \subseteq Collected
                        /\ \A d \in SubFoldersOf(tree[c]) :
                              requests[d] = 1 /\ listingLog[d] # ""

\* A subfolder's listing failed, its sibling's succeeded, and the crawl
\* resolved with the sibling's image.
C21_Witness ==
    /\ cret.kind = "resolved"
    /\ listingLog["s1"] \in BranchErrors
    /\ listingLog["s2"] = "ok"
    /\ "s2" \in SubFoldersOf(tree["root"]) /\ "s1" \in SubFoldersOf(tree["root"])
    /\ Collected = {"b1"}

\* ------------------------------------------- claims on the batch, continued

\* The jobs whose producer call was rejected with the AbortError of the
\* fired signal, and those rejected for any other reason.
Cancelled == {j \in 1..total : aborted /\ outcome[j] = "AbortError"}
GenuineFailures == Rejected \ Cancelled

\* C22: a job whose fetch was aborted by the cancellation signal does not
\* increment failedCount: failedCount counts genuine failures only.
C22_CancelNotCounted ==
    failedCount <= Cardinality(GenuineFailures)

\* The workers that wait for a producer call, and the jobs they hold.
Awaiting == {w \in 1..Len(worker) : worker[w].pc = "awaiting"}

\* C29: every job is handed to the producer at most once, and exactly once
\* in a run that returns without having been cancelled; the jobs are
\* started in increasing index order; a worker starts its next job only
\* after its previous producer call has settled.
C29_SingleDispatch ==
    /\ [](bpc # "idle" =>
            /\ Started = 1..(total - Len(queue))
            /\ queue = [k \in 1..Len(queue) |-> total - Len(queue) + k]
            /\ \A v, w \in Awaiting : worker[v].task = worker[w].task => v = w
            /\ \A j \in InFlight : \E w \in Awaiting : worker[w].task = j
            /\ (bpc = "returned" /\ ~aborted) => Started = 1..total)
    /\ [][/\ \A j \in 1..total :
                /\ outcome[j] # "queued" => outcome'[j] # "queued"
                /\ outcome[j] \notin {"queued", "pending"} => outcome'[j] = outcome[j]
          /\ \A w \in Awaiting :
                outcome[worker[w].task] = "pending" => worker'[w] = worker[w]]_vars

C29_Witness ==
    /\ bpc = "returned" /\ ~aborted
    /\ total = 3 /\ concurrency = 2
    /\ Started = 1..3

\* C30: a batch that was called returns once every started producer call
\* has settled, for every N >= 0 and concurrency >= 1; for N = 0 it returns
\* no results and no failures and onProgress was not called.
C30_BatchTermination ==
    /\ (bpc = "running") ~> (bpc = "returned")
    /\ []((bpc = "returned" /\ total = 0) =>
            /\ ret = [results |-> <<>>, failed |-> 0]
            /\ progressLog = <<>>
            /\ worker = <<>>)

C30_Witness ==
    /\ bpc = "returned"
    /\ total = 0
    /\ concurrency >= 1
    /\ ret = [results |-> <<>>, failed |-> 0]

\* ----------------------------------------------- claims on cancelled runs

\* C23: when a run that was cancelled has come to its end and an asset
\* had been retrieved when the signal fired, the results are shown and
\* hold every asset retrieved by then.
C23_PartialResultsSurvive ==
    (rpc \in {"done", "threw"} /\ runAborted /\ filesAtAbort # <<>>) =>
        /\ rpc = "done"
        /\ shown.set
        /\ Range(filesAtAbort) \subseteq Range(shown.files)

\* The groups whose listing succeeded and held no image.
EmptyGroups ==
    {g \in 1..Len(summaries) : items[g].link = "valid" /\ items[g].n = 0 /\ g \notin blocked}

\* What the operator sees of a group's outcome.
Visible(sm) == <<sm.status, sm.filesFound, sm.notes>>

\* C24: the summary of a group whose folder could not be listed differs,
\* in what it shows, from the summary of a group whose folder was listed
\* and held no image.
C24_BlockedDistinguishable ==
    \A b \in blocked, e \in EmptyGroups :
        b <= Len(summaries) => Visible(summaries[b]) # Visible(summaries[e])

\* C25: in the components that keep summaries, the summaries are those of
\* the groups taken up so far, one each and in input order; a run that
\* was neither cancelled nor halted ends with one summary per group; and
\* during a run the sequence only grows at its end.
C25_OneSummaryPerGroup ==
    /\ [](variant \in {"web", "postimg", "drive"} =>
            /\ Len(summaries) <= gi
            /\ rpc \in {"head", "after", "done"} => Len(summaries) = gi
            /\ \A g \in 1..Len(summaries) : summaries[g].styleName = items[g].folderName
            /\ (rpc = "done" /\ ~runAborted /\ fatalAt = 0) => Len(summaries) = Len(items))
    /\ [][rpc # "idle" => IsPrefix(summaries, summaries')]_vars

C25_Witness ==
    /\ variant = "drive"
    /\ rpc = "done"
    /\ ~runAborted
    /\ fatalAt = 0
    /\ Len(summaries) = 2
    /\ summaries[1].status = "Partial"
    /\ summaries[2].status = "Failed"

\* C26: while a group is listed or downloaded every earlier group has its
\* summary and its files merged, no download is pending outside a batch,
\* and the downloads pending never exceed the component's concurrency.
C26_GroupsSequential ==
    /\ rpc \in {"listing", "batch"} =>
          /\ variant \in {"web", "postimg", "drive"} => Len(summaries) = gi - 1
          /\ \A k \in 1..Len(allFiles) : allFiles[k].src[1] < gi
    /\ rpc # "batch" => inflight = {}
    /\ Cardinality(inflight) <= Concurrency(variant)
    /\ rpc = "batch" => \A k \in 1..Len(bresults) : bresults[k].src[1] = gi

C26_Witness ==
    /\ rpc = "batch"
    /\ gi = 2
    /\ Cardinality(inflight) >= 2
    /\ Len(allFiles) >= 2
    /\ Len(bresults) = 1

\* C27: once the signal has fired no further group is taken up: the loop
\* stays at the group it was in, and no summary of a later group appears.
C27_CancelBeforeEachGroup ==
    runAborted => (gi = abortedAt /\ Len(summaries) <= abortedAt)

C27_Witness ==
    /\ variant = "drive"
    /\ runAborted
    /\ rpc = "done"
    /\ abortedAt = 1
    /\ Len(items) = 2
    /\ Len(summaries) = 1

\* A cancelled drive run at its end that shows the assets retrieved by the
\* time of the cancellation.
C23_DriveSurvives ==
    /\ variant = "drive"
    /\ rpc = "done"
    /\ runAborted
    /\ filesAtAbort # <<>>
    /\ shown.set

\* C28: once the signal has fired no download completes any more: the
\* assets retrieved are those retrieved when it fired.
C28_SignalReachesEveryFetch ==
    runAborted => RetrievedNow = filesAtAbort

\* ------------------------------------------------- claims on fetchWithRetry

\* The requests of a kind issued so far: those answered and the one in flight.
Issued(kind) ==
    Cardinality({k \in 1..Len(qlog) : qlog[k].kind = kind}) + (IF qpc = kind THEN 1 ELSE 0)

\* The answered requests after which the code is to wait.
Retryable == {k \in 1..Len(qlog) : qlog[k].kind = "direct" /\ qlog[k].out \in {"429", "throw"}}

\* C31 as stated: at most `retries` direct requests and one failover
\* request; after a 429 response or a thrown request error a wait comes
\* before any further request; what is returned is a successful response.
C31_RetryBound ==
    /\ Issued("direct") <= Retries(qver)
    /\ Issued("failover") <= 1
    /\ \A k \in Retryable :
          (k < Len(qlog) \/ qpc \in {"direct", "failover"}) =>
              (k < Len(qlog) /\ qlog[k + 1] = Wait)
    /\ qpc = "returned" => Ok(qret.val)

\* C31, amended: at most `retries` direct requests and one failover
\* request (none outside the first version of googleDrive.ts); after a 429
\* response or a thrown request error a wait comes before the next direct
\* request, while the failover request follows the last direct one at
\* once; the versions of googleDrive.ts return successful responses only,
\* the version of part_012 any response that is neither 403 nor 429; and
\* every call settles by returning or throwing.
C31_RetryBoundAmended ==
    /\ [](/\ Issued("direct") <= Retries(qver)
          /\ Issued("failover") <= (IF qver = 1 THEN 1 ELSE 0)
          /\ \A k \in Retryable :
                /\ k < Len(qlog) => qlog[k + 1].kind # "direct"
                /\ k = Len(qlog) => qpc # "direct"
          /\ \A k \in Retryable :
                (k < Len(qlog) /\ qlog[k + 1] # Wait) =>
                    (qver = 1 /\ k = Len(qlog) - 1 /\ qlog[k + 1].kind = "failover"
                     /\ qlog[k].out = "throw")
          /\ qpc = "returned" =>
                (Ok(qret.val) \/ (qver = 3 /\ qret.val \notin {"403", "429", "throw"}))
          /\ qpc \in {"returned", "threw"} <=> qret # NoQret)
    /\ (qpc = "idle" /\ qver \in {1, 2, 3}) ~> (qpc \in {"returned", "threw"})

\* The first version has used both direct requests, waited after the
\* throttled one, gone to the proxy at once after the rejected one, and
\* thrown.
C31_Witness ==
    /\ qver = 1
    /\ qpc = "threw"
    /\ qlog = <<Direct("429"), Wait, Direct("throw"), Failover("500")>>

\* --------------------------------------------------- claims on the listing

RECURSIVE AllChildren(_, _)
AllChildren(ps, n) ==
    IF n = 0 THEN <<>> ELSE AllChildren(ps, n - 1) \o ps[n].files

\* C32: pages are requested one after the other while the page before
\* carried a token; once the last page is in, what is classified is the
\* concatenation of all pages in page order; until then, and when a page
\* request failed, no child of the container is classified or collected.
C32_PaginatedListing ==
    /\ lk <= Len(lpages)
    /\ lpc = "requesting" => lall = AllChildren(lpages, lk - 1)
    /\ lpc = "classified" =>
          /\ lk = Len(lpages)
          /\ lall = AllChildren(lpages, Len(lpages))
          /\ lfiles = ImagesOf(lall)
          /\ lsubs = SubFoldersOf(lall)
    /\ lpc # "classified" => (lfiles = <<>> /\ lsubs = {})
    /\ lpc = "failed" => lerr # ""

\* Three pages with children on each, classified.
C32_Witness ==
    /\ lpc = "classified"
    /\ Len(lpages) = 3
    /\ Len(lfiles) = 3
    /\ lsubs # {}

\* A failure on the third page after two pages with children.
C32_WitnessFailed ==
    /\ lpc = "failed"
    /\ lk = 3
    /\ Len(lall) = 4

\* ------------------------------------------- claims on the crawl's registry

\* The containers the registry holds.
Registered == {e[1] : e \in cfolders}

\* The root and every subcontainer found in a successful listing.
Discovered ==
    {"root"} \cup UNION {SubFoldersOf(tree[c]) : c \in {c \in Containers : listingLog[c] = "ok"}}

\* The containers whose listing holds the collected file f.
ParentsOf(f) == {c \in Containers : f \in Range(tree[c])}

\* C33: a container whose listing has been requested is in the registry
\* under its display name; once the crawl has been started the registry
\* holds the root and every subcontainer found in a successful listing,
\* also when sibling branches failed; the parent of every collected file
\* is in the registry.
C33_RegistryBeforeRecursion ==
    /\ \A c \in Containers : requests[c] > 0 => <<c, DisplayName(c)>> \in cfolders
    /\ cret.kind # "none" => Discovered \subseteq Registered
    /\ \A k \in 1..Len(cfiles) : ParentsOf(cfiles[k]) # {} /\ ParentsOf(cfiles[k]) \subseteq Registered

\* A crawl that resolved after a branch failure, with a registry that
\* names the failed branch and a file collected from its sibling.
C33_Witness ==
    /\ cret.kind = "resolved"
    /\ FailedBranches # {}
    /\ {"root", "s1", "s2"} \subseteq Registered
    /\ Len(cfiles) > 0

\* C34: the crawl settles; no container's listing is requested twice and
\* that of every discovered container is requested once; no file is
\* collected twice and every image of a successfully listed container is
\* collected; the crawl does not resolve while a sub-crawl it started is
\* still listing or waiting.
C34_CrawlTermination ==
    /\ (cret.kind = "pending") ~> (cret.kind \in {"resolved", "rejected"})
    /\ [](/\ \A c \in Containers : requests[c] <= 1
          /\ cret.kind # "none" => \A c \in Discovered : requests[c] = 1
          /\ \A j, k \in 1..Len(cfiles) : cfiles[j].id = cfiles[k].id => j = k
          /\ \A c \in Containers :
                listingLog[c] = "ok" => ImageIds(c) \subseteq Collected
          /\ cret.kind = "resolved" =>
                \A c \in Containers : cstate[c] \in {"none", "resolved"})

\* The deepest tree crawled to its end: three containers, each listed
\* once, both images collected.
C34_Witness ==
    /\ cret.kind = "resolved"
    /\ "s2" \in SubFoldersOf(tree["s1"])
    /\ \A c \in Containers : requests[c] = 1 /\ cstate[c] = "resolved"
    /\ Collected = {"a1", "b1"}

\* ------------------------------------------ claims on the component's runs

\* The runs whose group loop is executing.
Looping == {r \in RunIds : wruns[r].pc = "batch"}

\* C35: at most one run's group loop is executing, whatever the user
\* starts, resets or lets complete.
C35_OneRunAtATime == Cardinality(Looping) <= 1

\* C36: every read of abortControllerRef.current at the head of a run's
\* group loop found the controller that run created.
C36_HandleStaysValid == \A r \in RunIds : wruns[r].readOwn

RECURSIVE SumSeq(_)
SumSeq(q) == IF q = <<>> THEN 0 ELSE Head(q) + SumSeq(Tail(q))

C37_ResetIsFinal == (variant = "drive" /\ runAborted) => ~shown.set

\* ------------------------------------------------ claims on the categorizer

\* C39: a file the categorizer has pushed has a folder that is not the
\* empty string.
C39_GroupNameNotEmpty == kpc = "pushed" => kfolder # <<>>

\* The categorizer of AssetCategorizer.tsx never pushes a file with an
\* empty folder.
C39_InPlaceVersion == (kver = 2 /\ kpc = "pushed") => kfolder # <<>>

=============================================================================
